---------------------------- MODULE Spec2Model ----------------------------
(***************************************************************************)
(* A model of the geometric core of the HOI4Clone map viewer               *)
(* (src/src/hoi4clone/core: MapRenderer, Country, CountryManager, Game).   *)
(*                                                                         *)
(* Numbers.  The program computes in IEEE doubles.  The model computes the *)
(* exact rational value of every expression (a rational is a reduced pair  *)
(* <<num, den>>, den > 0) and places the rounding where it is observable:  *)
(* int(v) of a float whose exact value is an integer k may see a value     *)
(* just below or just above k, so IntOutcomes(v) is the set of the results *)
(* the truncation can give; and the bounds of the culling viewport, which  *)
(* carry a product with 0.1, may lie on either side of their exact values, *)
(* so a comparison of a bound with a box edge equal to its exact value can *)
(* go either way (Roundings).  The product of a city quota with a          *)
(* percentage is taken as the doubles take it (int_of_product).            *)
(* Everywhere else the exact value and the float agree on every comparison *)
(* the model's inputs produce.                                             *)
(***************************************************************************)
EXTENDS Integers, Sequences, FiniteSets, TLC

VARIABLES
    offset_x,           \* MapRenderer.offset_x (int pixels)
    offset_y,           \* MapRenderer.offset_y (int pixels)
    zoom,               \* MapRenderer.zoom (rational)
    last_viewport,      \* MapRenderer.last_viewport: None or a 4-tuple
    visible_countries,  \* MapRenderer.visible_countries: sequence of object ids
    country_objs,       \* every Country object created so far (id = index)
    countries,          \* CountryManager.countries: object ids in dict order
    selected_country,   \* CountryManager.selected_country: object id or NoCountry
    dragging,           \* Game.dragging
    last_mouse_pos,     \* Game.last_mouse_pos: None or <<x, y>>
    city_manager,       \* Game.city_manager: the CityManager's three fields
    state,              \* EuropaGame.state: the GameState's fields, or None
    input_handler,      \* EuropaGame.input_handler: the InputHandler's fields
    last,               \* the last call: its name, arguments, pre-state, result
    nsteps              \* number of calls made so far

vars == <<offset_x, offset_y, zoom, last_viewport, visible_countries,
          country_objs, countries, selected_country, dragging,
          last_mouse_pos, city_manager, state, input_handler, last,
          nsteps>>

\* Python's None for a tuple-valued attribute.
None == <<>>

\* Python's None for a Country reference (object ids start at 1).
NoCountry == 0

\* Longest call sequence explored.
MaxSteps == 2

---------------------------------------------------------------------------
(* Exact rational arithmetic standing for Python float arithmetic.         *)

Abs(i) == IF i < 0 THEN -i ELSE i

RECURSIVE GCD(_, _)
GCD(a, b) == IF b = 0 THEN a ELSE GCD(b, a % b)

LCM(a, b) == (a \div GCD(a, b)) * b

\* The float n / d, reduced; d # 0.
Rat(n, d) ==
    LET g == GCD(Abs(n), Abs(d))
        s == IF d < 0 THEN -1 ELSE 1
    IN  <<(s * n) \div g, Abs(d) \div g>>

\* An int used in float arithmetic.
FromInt(i) == <<i, 1>>

RAdd(p, q) ==
    LET l == LCM(p[2], q[2])
    IN  Rat(p[1] * (l \div p[2]) + q[1] * (l \div q[2]), l)

RNeg(p) == <<-p[1], p[2]>>

RSub(p, q) == RAdd(p, RNeg(q))

RMul(p, q) ==
    LET g1 == GCD(Abs(p[1]), q[2])
        g2 == GCD(Abs(q[1]), p[2])
    IN  Rat((p[1] \div g1) * (q[1] \div g2), (p[2] \div g2) * (q[2] \div g1))

\* p / q; Python raises ZeroDivisionError when q = 0, so callers divide
\* only where the code does.
RDiv(p, q) == RMul(p, Rat(q[2], q[1]))

RAbs(p) == <<Abs(p[1]), p[2]>>

\* a/b < c/d for b, d > 0, by comparing integer parts and then the
\* reciprocals of the fractional parts (no products, so no overflow).
RECURSIVE FracLess(_, _, _, _)
FracLess(a, b, c, d) ==
    LET qa == a \div b
        qc == c \div d
        ra == a % b
        rc == c % d
    IN  IF qa # qc THEN qa < qc
        ELSE IF rc = 0 THEN FALSE
        ELSE IF ra = 0 THEN TRUE
        ELSE FracLess(d, rc, b, ra)

RLt(p, q) == FracLess(p[1], p[2], q[1], q[2])
RGt(p, q) == RLt(q, p)
RLe(p, q) == ~RLt(q, p)
RGe(p, q) == ~RLt(p, q)

\* Python's min and max of two floats.
RMin(p, q) == IF RLt(q, p) THEN q ELSE p
RMax(p, q) == IF RLt(p, q) THEN q ELSE p

\* int(v) truncates toward zero.
Trunc(p) == IF p[1] >= 0 THEN p[1] \div p[2] ELSE -((-p[1]) \div p[2])

\* The results int(v) can give for a float v whose exact value is p: when p
\* is an integer k the rounded float may lie on either side of k.
IntOutcomes(p) ==
    IF p[2] # 1 THEN {Trunc(p)}
    ELSE IF p[1] > 0 THEN {p[1] - 1, p[1]}
    ELSE IF p[1] < 0 THEN {p[1], p[1] + 1}
    ELSE {0}

---------------------------------------------------------------------------
(* hoi4clone/utils/config.py                                               *)

WINDOW_WIDTH == 1200
WINDOW_HEIGHT == 800
INITIAL_ZOOM == <<1, 1>>
MAX_ZOOM == <<50, 1>>
MIN_ZOOM == <<3, 10>>
ZOOM_SPEED == <<11, 10>>
PAN_SPEED == 20
DRAG_BUTTON == 1
SELECT_BUTTON == 3

---------------------------------------------------------------------------
(* hoi4clone/core/map.py: MapRenderer                                      *)

\* The renderer's transform state as one value (the `self` of its methods).
Renderer ==
    [offset_x |-> offset_x, offset_y |-> offset_y, zoom |-> zoom,
     last_viewport |-> last_viewport]

\* geo_to_screen with the x axis scaled by the window's height.
geo_to_screen_height_for_x(self, lon, lat) ==
    LET x == RMul(RMul(RDiv(RAdd(lon, FromInt(180)), FromInt(360)),
                       FromInt(WINDOW_HEIGHT)), self.zoom)
        y == RMul(RMul(RDiv(RAdd(RNeg(lat), FromInt(90)), FromInt(180)),
                       FromInt(WINDOW_HEIGHT)), self.zoom)
    IN  IntOutcomes(RAdd(x, FromInt(self.offset_x)))
            \X IntOutcomes(RAdd(y, FromInt(self.offset_y)))

\* The set of pixel pairs geo_to_screen can return (see IntOutcomes).
geo_to_screen(self, lon, lat) ==
    LET x == RMul(RMul(RDiv(RAdd(lon, FromInt(180)), FromInt(360)),
                       FromInt(WINDOW_WIDTH)), self.zoom)
        y == RMul(RMul(RDiv(RAdd(RNeg(lat), FromInt(90)), FromInt(180)),
                       FromInt(WINDOW_HEIGHT)), self.zoom)
    IN  IntOutcomes(RAdd(x, FromInt(self.offset_x)))
            \X IntOutcomes(RAdd(y, FromInt(self.offset_y)))

screen_to_geo(self, screen_x, screen_y) ==
    LET x0 == screen_x - self.offset_x
        y0 == screen_y - self.offset_y
        x == RDiv(FromInt(x0), RMul(FromInt(WINDOW_WIDTH), self.zoom))
        y == RDiv(FromInt(y0), RMul(FromInt(WINDOW_HEIGHT), self.zoom))
        lon == RSub(RMul(x, FromInt(360)), FromInt(180))
        lat == RNeg(RSub(RMul(y, FromInt(180)), FromInt(90)))
    IN  <<lon, lat>>

\* adjust_zoom without the clamp to [MIN_ZOOM, MAX_ZOOM].
adjust_zoom_unclamped(self, factor, mouse_x, mouse_y) ==
    LET old == screen_to_geo(self, mouse_x, mouse_y)
        old_zoom == self.zoom
        z == RMul(self.zoom, factor)
        s1 == [self EXCEPT !.zoom = z]
    IN  IF z # old_zoom
        THEN {[s1 EXCEPT !.offset_x = @ + mouse_x - new[1],
                         !.offset_y = @ + mouse_y - new[2],
                         !.last_viewport = None] :
                 new \in geo_to_screen(s1, old[1], old[2])}
        ELSE {s1}

\* adjust_zoom without the test that the zoom changed.
adjust_zoom_always_anchors(self, factor, mouse_x, mouse_y) ==
    LET old == screen_to_geo(self, mouse_x, mouse_y)
        z == RMax(MIN_ZOOM, RMin(MAX_ZOOM, RMul(self.zoom, factor)))
        s1 == [self EXCEPT !.zoom = z]
    IN  {[s1 EXCEPT !.offset_x = @ + mouse_x - new[1],
                    !.offset_y = @ + mouse_y - new[2],
                    !.last_viewport = None] :
            new \in geo_to_screen(s1, old[1], old[2])}

\* The set of renderer states adjust_zoom can leave (one per rounding of
\* the anchor's new pixel position).
adjust_zoom(self, factor, mouse_x, mouse_y) ==
    LET old == screen_to_geo(self, mouse_x, mouse_y)
        old_zoom == self.zoom
        z == RMax(MIN_ZOOM, RMin(MAX_ZOOM, RMul(self.zoom, factor)))
        s1 == [self EXCEPT !.zoom = z]
    IN  IF z # old_zoom
        THEN {[s1 EXCEPT !.offset_x = @ + mouse_x - new[1],
                         !.offset_y = @ + mouse_y - new[2],
                         !.last_viewport = None] :
                 new \in geo_to_screen(s1, old[1], old[2])}
        ELSE {s1}

\* pan that keeps the offset inside the window.
pan_clamped(self, dx, dy) ==
    LET clamp(v, hi) == IF v < 0 THEN 0 ELSE IF v > hi THEN hi ELSE v
    IN  [self EXCEPT !.offset_x = clamp(@ + dx, WINDOW_WIDTH),
                     !.offset_y = clamp(@ + dy, WINDOW_HEIGHT),
                     !.last_viewport = None]

\* pan that leaves the cached viewport in place.
pan_keeps_last_viewport(self, dx, dy) ==
    [self EXCEPT !.offset_x = @ + dx, !.offset_y = @ + dy]

pan(self, dx, dy) ==
    [self EXCEPT !.offset_x = @ + dx, !.offset_y = @ + dy,
                 !.last_viewport = None]

---------------------------------------------------------------------------
(* hoi4clone/core/country.py: Country                                      *)

SetMin(S) == CHOOSE x \in S : \A y \in S : x <= y
SetMax(S) == CHOOSE x \in S : \A y \in S : x >= y

\* The outcome of a call that raised the exception `e`.
Raised(e) == [raised |-> e]

IsRaised(v) == "raised" \in DOMAIN v

\* np.vstack(self.polygons) raises ValueError: there is no ring to stack,
\* or an empty ring (an array without columns) meets a ring of points.
vstack_raises(polygons) ==
    \/ polygons = <<>>
    \/ /\ \E k \in DOMAIN polygons : polygons[k] = <<>>
       /\ \E k \in DOMAIN polygons : polygons[k] # <<>>

\* np.vstack(self.polygons): the rows of the stacked array, every point of
\* every ring (no row with a column when every ring is empty).
all_points(polygons) ==
    IF vstack_raises(polygons) THEN Raised("ValueError")
    ELSE UNION {{polygons[k][i] : i \in DOMAIN polygons[k]} :
                   k \in DOMAIN polygons}

\* A Country whose bounding box is taken from its first ring alone.
Country_box_of_first_ring(name, polygons) ==
    LET first == {polygons[1][i] : i \in DOMAIN polygons[1]}
    IN  [name |-> name,
         polygons |-> polygons,
         selected |-> FALSE,
         min_lon |-> SetMin({p[1] : p \in first}),
         max_lon |-> SetMax({p[1] : p \in first}),
         min_lat |-> SetMin({p[2] : p \in first}),
         max_lat |-> SetMax({p[2] : p \in first})]

\* Country.__init__: a ring is a sequence of <<lon, lat>> points.  The
\* constructor raises what np.vstack raises, and IndexError at
\* all_points[:, 0] when every ring is empty; no object exists then.
Country(name, polygons) ==
    IF vstack_raises(polygons) THEN all_points(polygons)
    ELSE IF all_points(polygons) = {} THEN Raised("IndexError")
    ELSE [name |-> name,
          polygons |-> polygons,
          selected |-> FALSE,
          min_lon |-> SetMin({p[1] : p \in all_points(polygons)}),
          max_lon |-> SetMax({p[1] : p \in all_points(polygons)}),
          min_lat |-> SetMin({p[2] : p \in all_points(polygons)}),
          max_lat |-> SetMax({p[2] : p \in all_points(polygons)})]

\* float('inf') of the list-based Country: above every coordinate.
float_inf == 1000000000

\* Country.__init__ of the list-based src/country.py: the rings are stored
\* as given and the box is folded over their points from (inf, -inf); it
\* never raises.
Country_of_lists(name, polygons) ==
    LET points == UNION {{polygons[k][i] : i \in DOMAIN polygons[k]} :
                            k \in DOMAIN polygons}
    IN  [name |-> name,
         polygons |-> polygons,
         selected |-> FALSE,
         min_lon |-> IF points = {} THEN float_inf
                     ELSE SetMin({p[1] : p \in points}),
         max_lon |-> IF points = {} THEN -float_inf
                     ELSE SetMax({p[1] : p \in points}),
         min_lat |-> IF points = {} THEN float_inf
                     ELSE SetMin({p[2] : p \in points}),
         max_lat |-> IF points = {} THEN -float_inf
                     ELSE SetMax({p[2] : p \in points})]

\* The edge test of the ray cast for edge (polygon[j], polygon[i]); the
\* division is evaluated only when the two latitudes differ, as in the
\* code's short-circuit `and`.
edge_crosses(polygon, i, j, lon, lat) ==
    /\ RGt(FromInt(polygon[i][2]), lat) # RGt(FromInt(polygon[j][2]), lat)
    /\ RLt(lon,
           RAdd(RDiv(RMul(FromInt(polygon[j][1] - polygon[i][1]),
                          RSub(lat, FromInt(polygon[i][2]))),
                     FromInt(polygon[j][2] - polygon[i][2])),
                FromInt(polygon[i][1])))

\* The inner loop of contains_point: i runs over the ring with j the
\* previous index (initially the last one), toggling `inside`.
RECURSIVE ray_cast_from(_, _, _, _, _, _)
ray_cast_from(polygon, lon, lat, i, j, inside) ==
    IF i > Len(polygon) THEN inside
    ELSE ray_cast_from(polygon, lon, lat, i + 1, i,
                       IF edge_crosses(polygon, i, j, lon, lat)
                       THEN ~inside ELSE inside)

point_in_polygon(polygon, lon, lat) ==
    ray_cast_from(polygon, lon, lat, 1, Len(polygon), FALSE)

\* The loop over the rings: returns at the first ring that holds the
\* point.  rays counts the rings whose ray cast was evaluated.
RECURSIVE rings_from(_, _, _, _)
rings_from(polygons, lon, lat, k) ==
    IF k > Len(polygons) THEN [ret |-> FALSE, rays |-> k - 1]
    ELSE IF point_in_polygon(polygons[k], lon, lat)
         THEN [ret |-> TRUE, rays |-> k]
         ELSE rings_from(polygons, lon, lat, k + 1)

\* contains_point without the bounding-box rejection.
contains_point_without_box(self, lon, lat) ==
    rings_from(self.polygons, lon, lat, 1)

\* One ray cast over all rings: `inside` is not reset between rings and
\* is returned after the last ring.
RECURSIVE rings_combined_from(_, _, _, _, _)
rings_combined_from(polygons, lon, lat, k, inside) ==
    IF k > Len(polygons) THEN [ret |-> inside, rays |-> k - 1]
    ELSE rings_combined_from(
             polygons, lon, lat, k + 1,
             ray_cast_from(polygons[k], lon, lat, 1, Len(polygons[k]),
                           inside))

contains_point_combined_rings(self, lon, lat) ==
    IF \/ RLt(lon, FromInt(self.min_lon)) \/ RGt(lon, FromInt(self.max_lon))
       \/ RLt(lat, FromInt(self.min_lat)) \/ RGt(lat, FromInt(self.max_lat))
    THEN [ret |-> FALSE, rays |-> 0]
    ELSE rings_combined_from(self.polygons, lon, lat, 1, FALSE)

\* Country.contains_point: the bounding-box rejection, then the rings.
contains_point(self, lon, lat) ==
    IF \/ RLt(lon, FromInt(self.min_lon)) \/ RGt(lon, FromInt(self.max_lon))
       \/ RLt(lat, FromInt(self.min_lat)) \/ RGt(lat, FromInt(self.max_lat))
    THEN [ret |-> FALSE, rays |-> 0]
    ELSE rings_from(self.polygons, lon, lat, 1)

\* The division of the edge test evaluated without the guard of the
\* short-circuit `and`.
edge_raises_unguarded(polygon, i, j, lon, lat) ==
    polygon[j][2] - polygon[i][2] = 0

\* The edge test raises (ZeroDivisionError in the pure-Python ray cast) iff
\* its division is evaluated, which the first conjunct of the `and`
\* decides, and the divisor is 0.
edge_raises(polygon, i, j, lon, lat) ==
    /\ RGt(FromInt(polygon[i][2]), lat) # RGt(FromInt(polygon[j][2]), lat)
    /\ polygon[j][2] - polygon[i][2] = 0

\* The ray cast of one ring raises iff one of its edge tests does; j is
\* the index before i, the last index for the first i.
ring_raises(polygon, lon, lat) ==
    \E i \in DOMAIN polygon :
        edge_raises(polygon, i, IF i = 1 THEN Len(polygon) ELSE i - 1,
                    lon, lat)

\* contains_point raises iff the box does not reject the point and one of
\* the rings it ray-casts raises.
contains_point_raises(self, lon, lat) ==
    /\ ~(\/ RLt(lon, FromInt(self.min_lon)) \/ RGt(lon, FromInt(self.max_lon))
         \/ RLt(lat, FromInt(self.min_lat)) \/ RGt(lat, FromInt(self.max_lat)))
    /\ \E k \in DOMAIN self.polygons : ring_raises(self.polygons[k], lon, lat)

\* Country.contains_point of the list-based src/country.py: the same box
\* rejection, then _point_in_polygon ring by ring, which is the same ray
\* cast.
contains_point_of_lists(self, lon, lat) == contains_point(self, lon, lat)

\* poly[start::step] with a 1-based start.
RECURSIVE slice_from(_, _, _)
slice_from(polygon, i, step) ==
    IF i > Len(polygon) THEN <<>>
    ELSE <<polygon[i]>> \o slice_from(polygon, i + step, step)

\* get_polygons with the detail bands in the opposite order.
get_polygons_coarser_when_closer(self, at_zoom) ==
    LET every(step) == [k \in DOMAIN self.polygons |->
                            slice_from(self.polygons[k], 1, step)]
    IN  IF RLe(at_zoom, <<1, 2>>) THEN self.polygons
        ELSE IF RLe(at_zoom, FromInt(1)) THEN every(2)
        ELSE IF RLe(at_zoom, FromInt(2)) THEN every(4)
        ELSE IF RLe(at_zoom, FromInt(4)) THEN every(8)
        ELSE every(16)

\* get_polygons with bands that exclude their upper threshold.
get_polygons_open_bands(self, at_zoom) ==
    LET every(step) == [k \in DOMAIN self.polygons |->
                            slice_from(self.polygons[k], 1, step)]
    IN  IF RLt(at_zoom, <<1, 2>>) THEN every(16)
        ELSE IF RLt(at_zoom, FromInt(1)) THEN every(8)
        ELSE IF RLt(at_zoom, FromInt(2)) THEN every(4)
        ELSE IF RLt(at_zoom, FromInt(4)) THEN every(2)
        ELSE self.polygons

\* Country.get_polygons: the rings at the detail level of the zoom.
get_polygons(self, at_zoom) ==
    LET every(step) == [k \in DOMAIN self.polygons |->
                            slice_from(self.polygons[k], 1, step)]
    IN  IF RLe(at_zoom, <<1, 2>>) THEN every(16)
        ELSE IF RLe(at_zoom, FromInt(1)) THEN every(8)
        ELSE IF RLe(at_zoom, FromInt(2)) THEN every(4)
        ELSE IF RLe(at_zoom, FromInt(4)) THEN every(2)
        ELSE self.polygons

\* The elements of a finite set of integers in increasing order (the order
\* np.where returns indices in).
SortedSeq(S) ==
    [m \in 1..Cardinality(S) |->
        CHOOSE x \in S : Cardinality({y \in S : y < x}) = m - 1]

\* mask: for each point (0-based index t) whether it lies in the viewport
\* widened by the one-degree margin.
point_mask(polygon, min_lon, max_lon, min_lat, max_lat) ==
    LET margin == FromInt(1)
    IN  [t \in 0..(Len(polygon) - 1) |->
            /\ RGe(FromInt(polygon[t + 1][1]), RSub(min_lon, margin))
            /\ RLe(FromInt(polygon[t + 1][1]), RAdd(max_lon, margin))
            /\ RGe(FromInt(polygon[t + 1][2]), RSub(min_lat, margin))
            /\ RLe(FromInt(polygon[t + 1][2]), RAdd(max_lat, margin))]

\* segment_starts: where np.diff(mask) is 1, plus 0 when mask[0].
segment_starts(mask, n) ==
    SortedSeq({t \in 1..(n - 1) : mask[t] /\ ~mask[t - 1]}
              \cup (IF mask[0] THEN {0} ELSE {}))

\* segment_ends: where np.diff(mask) is -1, plus len(mask) when mask[-1].
segment_ends(mask, n) ==
    SortedSeq({t \in 1..(n - 1) : ~mask[t] /\ mask[t - 1]}
              \cup (IF mask[n - 1] THEN {n} ELSE {}))

\* The segments of one ring without the point added on each side.
ring_segments_without_neighbours(polygon, min_lon, max_lon, min_lat, max_lat) ==
    LET n == Len(polygon)
        mask == point_mask(polygon, min_lon, max_lon, min_lat, max_lat)
    IN  IF n = 0 \/ ~(\E t \in 0..(n - 1) : mask[t]) THEN <<>>
        ELSE LET starts == segment_starts(mask, n)
                 ends == segment_ends(mask, n)
                 segment(m) == SubSeq(polygon, starts[m] + 1, ends[m])
             IN  SelectSeq([m \in 1..Len(starts) |-> segment(m)],
                           LAMBDA seg : Len(seg) >= 3)

\* The body of the loop over the rings: the kept segments of one ring,
\* polygon[max(0, start-1) : min(len(polygon), end+1)] for each zipped
\* (start, end), when it has at least 3 points.
ring_segments(polygon, min_lon, max_lon, min_lat, max_lat) ==
    LET n == Len(polygon)
        mask == point_mask(polygon, min_lon, max_lon, min_lat, max_lat)
        max(a, b) == IF a >= b THEN a ELSE b
        min(a, b) == IF a <= b THEN a ELSE b
    IN  IF n = 0 \/ ~(\E t \in 0..(n - 1) : mask[t]) THEN <<>>
        ELSE LET starts == segment_starts(mask, n)
                 ends == segment_ends(mask, n)
                 segment(m) == SubSeq(polygon, max(0, starts[m] - 1) + 1,
                                      min(n, ends[m] + 1))
             IN  SelectSeq([m \in 1..min(Len(starts), Len(ends)) |->
                                segment(m)],
                           LAMBDA seg : Len(seg) >= 3)

\* visible_polygons after the rings k.. of `polygons` have been processed.
RECURSIVE visible_from(_, _, _, _, _, _)
visible_from(polygons, k, min_lon, max_lon, min_lat, max_lat) ==
    IF k > Len(polygons) THEN <<>>
    ELSE ring_segments(polygons[k], min_lon, max_lon, min_lat, max_lat)
         \o visible_from(polygons, k + 1, min_lon, max_lon, min_lat, max_lat)

\* Country.get_visible_polygons: the box check against the viewport, then
\* the segments of the rings at the zoom's detail level.
get_visible_polygons(self, min_lon, max_lon, min_lat, max_lat, at_zoom) ==
    IF \/ RLt(max_lon, FromInt(self.min_lon))
       \/ RGt(min_lon, FromInt(self.max_lon))
       \/ RLt(max_lat, FromInt(self.min_lat))
       \/ RGt(min_lat, FromInt(self.max_lat))
    THEN <<>>
    ELSE visible_from(get_polygons(self, at_zoom), 1,
                      min_lon, max_lon, min_lat, max_lat)

\* Country.get_color: the country's colour, each channel raised by 50 and
\* capped at 255 while the country is selected.  `color` is the object's
\* colour attribute, three random channels in 100..200.
get_color(self, color) ==
    IF self.selected
    THEN [i \in DOMAIN color |->
             IF color[i] + 50 < 255 THEN color[i] + 50 ELSE 255]
    ELSE color

---------------------------------------------------------------------------
(* hoi4clone/core/country.py: CountryManager                               *)

\* The manager and the objects it refers to, as one value.
Manager ==
    [objs |-> country_objs, countries |-> countries,
     selected_country |-> selected_country]

\* Position of `name` among the dict's keys, 0 when absent.
key_index(objs, keys, name) ==
    IF \E k \in DOMAIN keys : objs[keys[k]].name = name
    THEN CHOOSE k \in DOMAIN keys : objs[keys[k]].name = name
    ELSE 0

\* self.countries[name] = country: a repeated name replaces the value and
\* keeps the key's place.
put_country(self, country) ==
    LET objs == Append(self.objs, country)
        id == Len(objs)
        at == key_index(self.objs, self.countries, country.name)
    IN  [self EXCEPT !.objs = objs,
                     !.countries = IF at = 0 THEN Append(@, id)
                                   ELSE [@ EXCEPT ![at] = id]]

\* The loop of load_from_geojson from feature n on: one Country per
\* feature.  A feature is [name, polygons] (exterior rings).  There is no
\* try: a constructor that raises ends the loop and the call, and the
\* manager stays as the features before it left it.
RECURSIVE load_features(_, _, _)
load_features(self, features, n) ==
    IF n > Len(features) THEN self
    ELSE IF IsRaised(Country(features[n].name, features[n].polygons))
    THEN self
    ELSE load_features(
             put_country(self, Country(features[n].name,
                                       features[n].polygons)),
             features, n + 1)

\* load_from_geojson: clears the dict and the selection, then loads the
\* features.  The value is the manager after the call, whether the call
\* returned or raised.
load_from_geojson(self, features) ==
    load_features([self EXCEPT !.countries = <<>>,
                               !.selected_country = NoCountry],
                  features, 1)

\* What load_from_geojson raises: the exception of the first feature
\* whose Country cannot be constructed, "None" when the call returns.
load_from_geojson_raises(features) ==
    LET bad == {n \in DOMAIN features :
                   IsRaised(Country(features[n].name, features[n].polygons))}
    IN  IF bad = {} THEN "None"
        ELSE Country(features[SetMin(bad)].name,
                     features[SetMin(bad)].polygons).raised

\* The loop of the list-based load_from_geojson from feature n on.
RECURSIVE load_features_of_lists(_, _, _)
load_features_of_lists(self, features, n) ==
    IF n > Len(features) THEN self
    ELSE load_features_of_lists(
             put_country(self, Country_of_lists(features[n].name,
                                                features[n].polygons)),
             features, n + 1)

\* CountryManager.load_from_geojson of the list-based src/country.py: one
\* Country per feature put into the dict as it is, with no clear of the
\* dict or of the selection.
load_from_geojson_without_clear(self, features) ==
    load_features_of_lists(self, features, 1)

\* get_country_at_point: first match in dict order, else None.
RECURSIVE country_at_from(_, _, _, _)
country_at_from(self, lon, lat, k) ==
    IF k > Len(self.countries) THEN NoCountry
    ELSE IF contains_point(self.objs[self.countries[k]], lon, lat).ret
         THEN self.countries[k]
         ELSE country_at_from(self, lon, lat, k + 1)

\* get_country_at_point that keeps scanning and returns the last match.
get_country_at_point_last_match(self, lon, lat) ==
    LET hits == {k \in DOMAIN self.countries :
                    contains_point(self.objs[self.countries[k]],
                                   lon, lat).ret}
    IN  IF hits = {} THEN NoCountry ELSE self.countries[SetMax(hits)]

get_country_at_point(self, lon, lat) == country_at_from(self, lon, lat, 1)

\* select_country that leaves the previous country's flag set.
select_country_keeps_previous(self, country) ==
    [self EXCEPT
        !.objs = IF country # NoCountry
                 THEN [@ EXCEPT ![country].selected = TRUE]
                 ELSE @,
        !.selected_country = country]

select_country(self, country) ==
    LET cleared ==
            IF self.selected_country # NoCountry
            THEN [self.objs EXCEPT ![self.selected_country].selected = FALSE]
            ELSE self.objs
    IN  [self EXCEPT
            !.objs = IF country # NoCountry
                     THEN [cleared EXCEPT ![country].selected = TRUE]
                     ELSE cleared,
            !.selected_country = country]

---------------------------------------------------------------------------
(* hoi4clone/core/map.py: MapRenderer.update_visible_countries             *)

\* The margin-expanded viewport <<min_lon, max_lon, min_lat, max_lat>>.
expanded_viewport(self) ==
    LET tl == screen_to_geo(self, 0, 0)
        br == screen_to_geo(self, WINDOW_WIDTH, WINDOW_HEIGHT)
        margin == RMul(RSub(br[1], tl[1]), <<1, 10>>)
    IN  <<RSub(tl[1], margin), RAdd(br[1], margin),
          RSub(br[2], margin), RAdd(tl[2], margin)>>

\* The sides on which the float of a computed bound can lie from its
\* exact value: just below it, on it, just above it.
Roundings == {-1, 0, 1}

\* a >= b and a <= b, for an exact a and the float b that lies on side s
\* of its exact value v: the side decides when a = v.
GeRounded(a, v, s) == IF a = v THEN s <= 0 ELSE RGt(a, v)
LeRounded(a, v, s) == IF a = v THEN s >= 0 ELSE RLt(a, v)

\* The list comprehension: the countries whose box meets the viewport
\* whose four floats lie on the sides r of the exact values v.
countries_in_view(mgr, v, r) ==
    SelectSeq(mgr.countries,
              LAMBDA id :
                  /\ GeRounded(FromInt(mgr.objs[id].max_lon), v[1], r[1])
                  /\ LeRounded(FromInt(mgr.objs[id].min_lon), v[2], r[2])
                  /\ GeRounded(FromInt(mgr.objs[id].max_lat), v[3], r[3])
                  /\ LeRounded(FromInt(mgr.objs[id].min_lat), v[4], r[4]))

\* The pairs <<last_viewport, visible_countries>> the call can leave.  The
\* margin is a product with 0.1, so the floats of the bounds are rounded:
\* a box edge on the exact value of a bound is in or out by the side the
\* float lies on, and a bound exactly one degree from the cached one is
\* "changed" or not by it.
update_visible_countries(self, visible, mgr) ==
    LET new_viewport == expanded_viewport(self)
        moved(k) == RAbs(RSub(new_viewport[k], self.last_viewport[k]))
        recomputed ==
            {<<new_viewport, countries_in_view(mgr, new_viewport, r)>> :
                r \in [1..4 -> Roundings]}
        kept == {<<self.last_viewport, visible>>}
    IN  IF self.last_viewport = None THEN recomputed
        ELSE IF \E k \in 1..4 : RGt(moved(k), FromInt(1)) THEN recomputed
        ELSE IF \E k \in 1..4 : moved(k) = FromInt(1)
        THEN recomputed \cup kept
        ELSE kept

---------------------------------------------------------------------------
(* src/map.py: the cull of the list-based MapRenderer                      *)

\* MapRenderer.get_viewport_bounds: the geographic rectangle of the window
\* as <<min_lon, min_lat, max_lon, max_lat>>.
get_viewport_bounds(self) ==
    LET top_left == screen_to_geo(self, 0, 0)
        bottom_right == screen_to_geo(self, WINDOW_WIDTH, WINDOW_HEIGHT)
    IN  <<RMin(top_left[1], bottom_right[1]),
          RMin(bottom_right[2], top_left[2]),
          RMax(top_left[1], bottom_right[1]),
          RMax(bottom_right[2], top_left[2])>>

\* MapRenderer.is_country_visible: the set of the results the test can
\* give.  The bounds are floats of a quotient and a product, so a box edge
\* on the exact value of a bound is beyond the float or not by the side
\* the float lies on; everywhere else the result is one value.
is_country_visible(self, country) ==
    LET view == get_viewport_bounds(self)
    IN  {~(\/ ~GeRounded(FromInt(country.max_lon), view[1], r[1])
           \/ ~LeRounded(FromInt(country.min_lon), view[3], r[2])
           \/ ~GeRounded(FromInt(country.max_lat), view[2], r[3])
           \/ ~LeRounded(FromInt(country.min_lat), view[4], r[4])) :
            r \in [1..4 -> Roundings]}

---------------------------------------------------------------------------
(* hoi4clone/core/city.py: City, CityManager                               *)

\* City.__init__; coordinates and populations are integers here.
City(name, lon, lat, population, country) ==
    [name |-> name, lon |-> lon, lat |-> lat, population |-> population,
     country |-> country]

\* CityManager.__init__.  cities_by_country is the dict as the sequence of
\* its items in insertion order; country_populations is the dict as a
\* function on its keys.
CityManager ==
    [cities |-> <<>>, cities_by_country |-> <<>>,
     country_populations |-> [name \in {} |-> 0]]

\* The zoom thresholds and percentages, in the order sorted() gives.
percent_cities_by_zoom ==
    <<<<<<3, 10>>, <<3, 10>>>>, <<<<1, 2>>, <<1, 2>>>>,
      <<FromInt(1), <<7, 10>>>>, <<FromInt(2), <<9, 10>>>>,
      <<FromInt(4), FromInt(1)>>>>

\* The first loop of load_from_shapefile: a row's POP_EST is stored as
\* int(pop) under its NAME when it is a positive number.
RECURSIVE load_populations(_, _, _)
load_populations(self, country_rows, n) ==
    IF n > Len(country_rows) THEN self
    ELSE LET row == country_rows[n]
             pops == self.country_populations
         IN  load_populations(
                 IF row.POP_EST > 0
                 THEN [self EXCEPT !.country_populations =
                          [name \in DOMAIN pops \cup {row.NAME} |->
                              IF name = row.NAME THEN row.POP_EST
                              ELSE pops[name]]]
                 ELSE self,
                 country_rows, n + 1)

\* Position of `country` among the keys of cities_by_country, 0 if absent.
group_index(groups, country) ==
    IF \E k \in DOMAIN groups : groups[k].country = country
    THEN CHOOSE k \in DOMAIN groups : groups[k].country = country
    ELSE 0

\* The second loop: one City per row, appended to cities and to the list
\* of its country code, which is created on first use.
RECURSIVE load_cities(_, _, _)
load_cities(self, city_rows, n) ==
    IF n > Len(city_rows) THEN self
    ELSE LET row == city_rows[n]
             city == City(row.NAME, row.x, row.y, row.POP_MAX, row.SOV_A3)
             groups == self.cities_by_country
             at == group_index(groups, city.country)
         IN  load_cities(
                 [self EXCEPT
                     !.cities = Append(@, city),
                     !.cities_by_country =
                         IF at = 0
                         THEN Append(groups, [country |-> city.country,
                                              cities |-> <<city>>])
                         ELSE [groups EXCEPT ![at].cities = Append(@, city)]],
                 city_rows, n + 1)

\* A descending sort that puts a city before the cities of equal
\* population that came before it.
sorted_by_population_unstable(cities) ==
    LET place(i) ==
            1 + Cardinality({j \in DOMAIN cities :
                    \/ cities[j].population > cities[i].population
                    \/ /\ cities[j].population = cities[i].population
                       /\ j > i})
    IN  [r \in DOMAIN cities |->
            cities[CHOOSE i \in DOMAIN cities : place(i) = r]]

\* list.sort(key=population, reverse=True): descending and stable.  A
\* city stands behind the cities of greater population and behind the
\* cities of equal population that came before it in the list.
sorted_by_population(cities) ==
    LET place(i) ==
            1 + Cardinality({j \in DOMAIN cities :
                    \/ cities[j].population > cities[i].population
                    \/ /\ cities[j].population = cities[i].population
                       /\ j < i})
    IN  [r \in DOMAIN cities |->
            cities[CHOOSE i \in DOMAIN cities : place(i) = r]]

\* CityManager.load_from_shapefile on the rows of the two shapefiles.
load_from_shapefile(self, city_rows, country_rows) ==
    LET loaded == load_cities(load_populations(self, country_rows, 1),
                              city_rows, 1)
    IN  [loaded EXCEPT !.cities_by_country =
            [k \in DOMAIN @ |->
                [@[k] EXCEPT !.cities = sorted_by_population(@)]]]

\* A percentage that falls as the zoom grows.
percent_to_show_falling(at_zoom) ==
    IF RGe(at_zoom, FromInt(4)) THEN <<3, 10>>
    ELSE IF RGe(at_zoom, FromInt(2)) THEN <<1, 2>>
    ELSE IF RGe(at_zoom, FromInt(1)) THEN <<7, 10>>
    ELSE IF RGe(at_zoom, <<1, 2>>) THEN <<9, 10>>
    ELSE FromInt(1)

\* The loop over the sorted thresholds: the percentage of the last
\* threshold the zoom reaches, 0.3 when it reaches none.
RECURSIVE percent_from(_, _, _)
percent_from(at_zoom, k, percent) ==
    IF k > Len(percent_cities_by_zoom) THEN percent
    ELSE percent_from(at_zoom, k + 1,
                      IF RGe(at_zoom, percent_cities_by_zoom[k][1])
                      THEN percent_cities_by_zoom[k][2] ELSE percent)

percent_to_show(at_zoom) == percent_from(at_zoom, 1, <<3, 10>>)

\* The largest power of two that is at most n, for n >= 1: the binade of
\* the double n.
RECURSIVE pow2_floor(_)
pow2_floor(n) == IF n < 2 THEN 1 ELSE 2 * pow2_floor(n \div 2)

\* int(num_cities * percent) for a percentage of percent_cities_by_zoom.
\* A product that is not a whole number is truncated.  A product whose
\* exact value is a whole number k is the double nearest to num_cities
\* times the double of the literal: 0.5 and 1.0 are doubles, the double of
\* 0.9 lies above 0.9 and that of 0.3 so little below 0.3 that both
\* products round to k; the double of 0.7 is 0.7 - 0.4 * 2^-53, and
\* num_cities = 10 m times it rounds to k = 7 m when m * 2^-51 is at most
\* half the spacing 2^-52 * pow2_floor(k) of the doubles below k, and to
\* the double below k otherwise (90 * 0.7 = 62.99999999999999).
int_of_product(num_cities, percent) ==
    LET exact == RMul(FromInt(num_cities), percent)
        k == exact[1]
    IN  IF exact[2] # 1 \/ k <= 0 THEN Trunc(exact)
        ELSE IF percent = <<7, 10>>
                    /\ 4 * (num_cities \div 10) > pow2_floor(k)
             THEN k - 1
             ELSE k

\* num_to_show for a country: max(2, int(max(3, int(pop / 1000000)) * p)).
\* pop / 1000000 is a correctly rounded quotient: its int() is the whole
\* number of millions.
num_to_show(self, country, percent) ==
    LET pops == self.country_populations
        country_pop == IF country \in DOMAIN pops THEN pops[country] ELSE 0
        millions == Trunc(RDiv(FromInt(country_pop), FromInt(1000000)))
        num_cities == IF millions > 3 THEN millions ELSE 3
        part == int_of_product(num_cities, percent)
    IN  IF part > 2 THEN part ELSE 2

\* The inner loop without its count: every city of the list in the
\* viewport.
top_in_view_unlimited(cities, k, count, limit, min_lon, max_lon, min_lat, max_lat) ==
    SelectSeq(cities,
              LAMBDA city :
                  /\ RLe(min_lon, FromInt(city.lon))
                  /\ RLe(FromInt(city.lon), max_lon)
                  /\ RLe(min_lat, FromInt(city.lat))
                  /\ RLe(FromInt(city.lat), max_lat))

\* The inner loop from the k-th city of a country's list on: stops when
\* `count` reaches `limit`, appends each city inside the viewport.
RECURSIVE top_in_view(_, _, _, _, _, _, _, _)
top_in_view(cities, k, count, limit, min_lon, max_lon, min_lat, max_lat) ==
    IF k > Len(cities) \/ count >= limit THEN <<>>
    ELSE IF /\ RLe(min_lon, FromInt(cities[k].lon))
            /\ RLe(FromInt(cities[k].lon), max_lon)
            /\ RLe(min_lat, FromInt(cities[k].lat))
            /\ RLe(FromInt(cities[k].lat), max_lat)
         THEN <<cities[k]>> \o top_in_view(cities, k + 1, count + 1, limit,
                                           min_lon, max_lon, min_lat, max_lat)
         ELSE top_in_view(cities, k + 1, count, limit,
                          min_lon, max_lon, min_lat, max_lat)

\* The loop over cities_by_country.items() from the g-th item on.
RECURSIVE visible_cities_from(_, _, _, _, _, _, _)
visible_cities_from(self, g, percent, min_lon, max_lon, min_lat, max_lat) ==
    IF g > Len(self.cities_by_country) THEN <<>>
    ELSE LET group == self.cities_by_country[g]
         IN  top_in_view(group.cities, 1, 0,
                         num_to_show(self, group.country, percent),
                         min_lon, max_lon, min_lat, max_lat)
             \o visible_cities_from(self, g + 1, percent,
                                    min_lon, max_lon, min_lat, max_lat)

\* CityManager.get_visible_cities.
get_visible_cities(self, min_lon, max_lon, min_lat, max_lat, at_zoom) ==
    visible_cities_from(self, 1, percent_to_show(at_zoom),
                        min_lon, max_lon, min_lat, max_lat)

---------------------------------------------------------------------------
(* Input data: the regions a load delivers and the arguments of the calls. *)

\* The ring of an axis-aligned box, counter-clockwise from (x0, y0).
Box(x0, y0, x1, y1) == <<<<x0, y0>>, <<x1, y0>>, <<x1, y1>>, <<x0, y1>>>>

Feature(name, polygons) == [name |-> name, polygons |-> polygons]

\* The two regions of the end-to-end scenario.
TestWorld ==
    <<Feature("Testland", <<Box(-10, -10, 10, 10)>>),
      Feature("Other", <<Box(20, 20, 30, 30)>>)>>

\* Overlapping territories: Alpha is inserted before Beta.
OverlapWorld ==
    <<Feature("Alpha", <<Box(-40, 0, 0, 30)>>),
      Feature("Beta", <<Box(-10, -10, 10, 30)>>),
      Feature("Gamma", <<Box(20, 20, 30, 30)>>)>>

\* The unit-test square, a region of three rings (two of them overlapping,
\* one a triangle), and a concave region.
ShapesWorld ==
    <<Feature("Square", <<Box(0, 0, 10, 10)>>),
      Feature("Isles", <<Box(0, 0, 6, 6), Box(4, 4, 12, 12),
                         <<<<14, 0>>, <<24, 0>>, <<19, 10>>>>>>),
      Feature("Ushape", <<<<<<0, 0>>, <<12, 0>>, <<12, 12>>, <<8, 12>>,
                            <<8, 4>>, <<4, 4>>, <<4, 12>>, <<0, 12>>>>>>)>>

EmptyManager ==
    [objs |-> <<>>, countries |-> <<>>, selected_country |-> NoCountry]

\* A row of the cities shapefile and a row of the countries shapefile.
CityRow(name, pop_max, x, y, sov_a3) ==
    [NAME |-> name, POP_MAX |-> pop_max, x |-> x, y |-> y, SOV_A3 |-> sov_a3]

CountryRow(name, pop_est) == [NAME |-> name, POP_EST |-> pop_est]

\* Six cities of two countries; Bree, Cove and Esk have equal populations.
Aton == CityRow("Aton", 900, 0, 0, "AAA")
Bree == CityRow("Bree", 500, 5, 5, "AAA")
Cove == CityRow("Cove", 500, 25, 25, "AAA")
Dale == CityRow("Dale", 700, 2, 2, "BBB")
Esk == CityRow("Esk", 500, 3, 3, "AAA")
Ford == CityRow("Ford", 100, 1, 1, "AAA")

TestCityRows == <<Bree, Aton, Cove, Dale, Esk, Ford>>

TestCountryRows ==
    <<CountryRow("AAA", 10000000), CountryRow("BBB", 2500000)>>

\* A country of ninety million people with more cities at the origin than
\* its quota of 90 lets it show at any percentage below 1.0.
BigCities == 63

BigCityRows ==
    [i \in 1..BigCities |->
        CityRow("Big" \o ToString(i), 1000 - i, 0, 0, "BIG")]

BigCountryRows == <<CountryRow("BIG", 90000000)>>

\* Zoom factors whose float product is exact (powers of two), reaching
\* both zoom bounds within MaxSteps calls.
ZoomFactors == {<<2, 1>>, <<1, 2>>, <<64, 1>>, <<1, 64>>}

\* Pixel positions of the mouse.
MousePoints == {<<1199, 799>>, <<1100, 700>>, <<1199, 700>>}

\* Pan amounts of direct pan calls.
PanDeltas == {<<-99, 0>>, <<PAN_SPEED, 0>>, <<0, -PAN_SPEED>>, <<7, 13>>}

---------------------------------------------------------------------------
(* The state after construction, and the record of the last call.          *)

Snapshot == [renderer |-> Renderer, visible |-> visible_countries,
             manager |-> Manager]

Call(op, args, ret) ==
    [op |-> op, args |-> args, pre |-> Snapshot, ret |-> ret]

NoCall == [op |-> "init", args |-> <<>>, pre |-> <<>>, ret |-> <<>>]

\* MapRenderer.__init__, CountryManager.__init__ followed by the load of
\* `world`, and Game.__init__.  main() exits when the load raises, so
\* there is a Game only for a world that loads.
ConstructedWith(world, cities) ==
    LET m == load_from_geojson(EmptyManager, world)
    IN  /\ load_from_geojson_raises(world) = "None"
        /\ offset_x = WINDOW_WIDTH \div 2
        /\ offset_y = WINDOW_HEIGHT \div 2
        /\ zoom = INITIAL_ZOOM
        /\ last_viewport = None
        /\ visible_countries = <<>>
        /\ country_objs = m.objs
        /\ countries = m.countries
        /\ selected_country = m.selected_country
        /\ dragging = FALSE
        /\ last_mouse_pos = None
        /\ city_manager = cities
        /\ state = None
        /\ input_handler = None
        /\ last = NoCall
        /\ nsteps = 0

\* Game.__init__ with the two shapefiles giving TestCityRows and
\* TestCountryRows.
Constructed(world) ==
    ConstructedWith(world, load_from_shapefile(CityManager, TestCityRows,
                                               TestCountryRows))

SetRenderer(r) ==
    /\ offset_x' = r.offset_x
    /\ offset_y' = r.offset_y
    /\ zoom' = r.zoom
    /\ last_viewport' = r.last_viewport

SetManager(m) ==
    /\ country_objs' = m.objs
    /\ countries' = m.countries
    /\ selected_country' = m.selected_country

Step == nsteps < MaxSteps /\ nsteps' = nsteps + 1

---------------------------------------------------------------------------
(* SpecMap: any sequence of calls of the renderer's and the manager's      *)
(* methods on a loaded map.                                                *)

AdjustZoom(factor, mouse_x, mouse_y) ==
    /\ Step
    /\ \E r \in adjust_zoom(Renderer, factor, mouse_x, mouse_y) :
           SetRenderer(r)
    /\ last' = Call("adjust_zoom", <<factor, mouse_x, mouse_y>>, None)
    /\ UNCHANGED <<visible_countries, country_objs, countries,
                   selected_country, dragging, last_mouse_pos,
                   city_manager,
                   state, input_handler>>

Pan(dx, dy) ==
    /\ Step
    /\ SetRenderer(pan(Renderer, dx, dy))
    /\ last' = Call("pan", <<dx, dy>>, None)
    /\ UNCHANGED <<visible_countries, country_objs, countries,
                   selected_country, dragging, last_mouse_pos,
                   city_manager,
                   state, input_handler>>

SelectCountry(country) ==
    /\ Step
    /\ SetManager(select_country(Manager, country))
    /\ last' = Call("select_country", <<country>>, None)
    /\ UNCHANGED <<offset_x, offset_y, zoom, last_viewport,
                   visible_countries, dragging, last_mouse_pos,
                   city_manager,
                   state, input_handler>>

UpdateVisibleCountries ==
    /\ Step
    /\ \E r \in update_visible_countries(Renderer, visible_countries,
                                         Manager) :
           /\ last_viewport' = r[1]
           /\ visible_countries' = r[2]
    /\ last' = Call("update_visible_countries", <<>>, None)
    /\ UNCHANGED <<offset_x, offset_y, zoom, country_objs, countries,
                   selected_country, dragging, last_mouse_pos,
                   city_manager,
                   state, input_handler>>

InitMap == Constructed(TestWorld)

NextMap ==
    \/ \E f \in ZoomFactors, m \in MousePoints : AdjustZoom(f, m[1], m[2])
    \/ \E d \in PanDeltas : Pan(d[1], d[2])
    \/ \E c \in {NoCountry} \cup DOMAIN country_objs : SelectCountry(c)
    \/ UpdateVisibleCountries

SpecMap == InitMap /\ [][NextMap]_vars

---------------------------------------------------------------------------
(* hoi4clone/core/game.py: Game.handle_input, one event at a time, and the *)
(* draw that follows each batch of events.                                 *)

Game ==
    [renderer |-> Renderer, manager |-> Manager, dragging |-> dragging,
     last_mouse_pos |-> last_mouse_pos]

\* The MOUSEBUTTONDOWN branch; a set because of adjust_zoom's rounding.
on_mouse_button_down(self, button, pos) ==
    IF button = DRAG_BUTTON
    THEN {[self EXCEPT !.dragging = TRUE, !.last_mouse_pos = pos]}
    ELSE IF button = SELECT_BUTTON
    THEN LET geo == screen_to_geo(self.renderer, pos[1], pos[2])
             clicked_country ==
                 get_country_at_point(self.manager, geo[1], geo[2])
         IN  {[self EXCEPT
                  !.manager = select_country(@, clicked_country)]}
    ELSE IF button = 4
    THEN {[self EXCEPT !.renderer = r] :
             r \in adjust_zoom(self.renderer, ZOOM_SPEED, pos[1], pos[2])}
    ELSE IF button = 5
    THEN {[self EXCEPT !.renderer = r] :
             r \in adjust_zoom(self.renderer, RDiv(FromInt(1), ZOOM_SPEED),
                               pos[1], pos[2])}
    ELSE {self}

\* The MOUSEBUTTONUP branch.
on_mouse_button_up(self, button) ==
    IF button = DRAG_BUTTON
    THEN [self EXCEPT !.dragging = FALSE, !.last_mouse_pos = None]
    ELSE self

\* A MOUSEMOTION branch that leaves last_mouse_pos where the press put it.
on_mouse_motion_keeps_last_pos(self, pos) ==
    IF self.dragging /\ self.last_mouse_pos # None
    THEN [self EXCEPT
             !.renderer = pan(@, pos[1] - self.last_mouse_pos[1],
                                 pos[2] - self.last_mouse_pos[2])]
    ELSE self

\* The MOUSEMOTION branch.
on_mouse_motion(self, pos) ==
    IF self.dragging /\ self.last_mouse_pos # None
    THEN [self EXCEPT
             !.renderer = pan(@, pos[1] - self.last_mouse_pos[1],
                                 pos[2] - self.last_mouse_pos[2]),
             !.last_mouse_pos = pos]
    ELSE self

\* The KEYDOWN branch.
on_key_down(self, key) ==
    IF key \in {"K_LEFT", "K_a"}
    THEN [self EXCEPT !.renderer = pan(@, PAN_SPEED, 0)]
    ELSE IF key \in {"K_RIGHT", "K_d"}
    THEN [self EXCEPT !.renderer = pan(@, -PAN_SPEED, 0)]
    ELSE IF key \in {"K_UP", "K_w"}
    THEN [self EXCEPT !.renderer = pan(@, 0, PAN_SPEED)]
    ELSE IF key \in {"K_DOWN", "K_s"}
    THEN [self EXCEPT !.renderer = pan(@, 0, -PAN_SPEED)]
    ELSE self

SetGame(g) ==
    /\ SetRenderer(g.renderer)
    /\ SetManager(g.manager)
    /\ dragging' = g.dragging
    /\ last_mouse_pos' = g.last_mouse_pos

MouseButtonDown(button, pos) ==
    /\ Step
    /\ \E g \in on_mouse_button_down(Game, button, pos) : SetGame(g)
    /\ last' = Call("MOUSEBUTTONDOWN", <<button, pos>>, None)
    /\ UNCHANGED <<visible_countries, city_manager,
                   state, input_handler>>

MouseButtonUp(button) ==
    /\ Step
    /\ SetGame(on_mouse_button_up(Game, button))
    /\ last' = Call("MOUSEBUTTONUP", <<button>>, None)
    /\ UNCHANGED <<visible_countries, city_manager,
                   state, input_handler>>

MouseMotion(pos) ==
    /\ Step
    /\ SetGame(on_mouse_motion(Game, pos))
    /\ last' = Call("MOUSEMOTION", <<pos>>, None)
    /\ UNCHANGED <<visible_countries, city_manager,
                   state, input_handler>>

KeyDown(key) ==
    /\ Step
    /\ SetGame(on_key_down(Game, key))
    /\ last' = Call("KEYDOWN", <<key>>, None)
    /\ UNCHANGED <<visible_countries, city_manager,
                   state, input_handler>>

\* MapRenderer.draw as far as it changes state.
Draw ==
    /\ Step
    /\ \E r \in update_visible_countries(Renderer, visible_countries,
                                         Manager) :
           /\ last_viewport' = r[1]
           /\ visible_countries' = r[2]
    /\ last' = Call("draw", <<>>, None)
    /\ UNCHANGED <<offset_x, offset_y, zoom, country_objs, countries,
                   selected_country, dragging, last_mouse_pos,
                   city_manager,
                   state, input_handler>>

\* A small region inserted before a large one that covers it.
NestedWorld ==
    <<Feature("Inner", <<Box(-5, -5, 5, 5)>>),
      Feature("Outer", <<Box(-40, -10, 10, 30)>>)>>

Buttons == {DRAG_BUTTON, SELECT_BUTTON, 4, 5}

Keys == {"K_LEFT", "K_RIGHT", "K_UP", "K_DOWN", "K_a", "K_SPACE"}

\* Where the mouse is in the game: over Inner and Outer, over Outer only,
\* and over water, in the initial view.
GamePoints == {<<1199, 799>>, <<1100, 700>>, <<1000, 500>>}

Init == Constructed(NestedWorld)

Next ==
    \/ \E b \in Buttons, p \in GamePoints : MouseButtonDown(b, p)
    \/ \E b \in {DRAG_BUTTON, SELECT_BUTTON} : MouseButtonUp(b)
    \/ \E p \in GamePoints : MouseMotion(p)
    \/ \E k \in Keys : KeyDown(k)
    \/ Draw

Spec == Init /\ [][Next]_vars

---------------------------------------------------------------------------
(* SpecPoint: the point queries as functions of the loaded regions and the *)
(* query point: one query on a freshly loaded map.                         *)

QueryCoords ==
    {FromInt(i) : i \in {-11, -10, -5, -1, 0, 1, 2, 3, 4, 5, 6, 7, 8, 9, 10,
                         11, 12, 13, 15, 19, 20, 25, 30, 31, 100}}
    \cup {<<1, 2>>, <<19, 2>>, <<21, 2>>}

PointWorlds == {TestWorld, OverlapWorld, ShapesWorld, NestedWorld}

ContainsPoint(c, lon, lat) ==
    /\ last.op = "init"
    /\ last' = Call("contains_point", <<c, lon, lat>>,
                    contains_point(country_objs[c], lon, lat))
    /\ UNCHANGED <<offset_x, offset_y, zoom, last_viewport,
                   visible_countries, country_objs, countries,
                   selected_country, dragging, last_mouse_pos, nsteps,
                   city_manager,
                   state, input_handler>>

GetCountryAtPoint(lon, lat) ==
    /\ last.op = "init"
    /\ last' = Call("get_country_at_point", <<lon, lat>>,
                    get_country_at_point(Manager, lon, lat))
    /\ UNCHANGED <<offset_x, offset_y, zoom, last_viewport,
                   visible_countries, country_objs, countries,
                   selected_country, dragging, last_mouse_pos, nsteps,
                   city_manager,
                   state, input_handler>>

InitPoint == \E w \in PointWorlds : Constructed(w)

\* The select click of Game.handle_input on the freshly loaded map.
SelectClick(pos) ==
    /\ last.op = "init"
    /\ MouseButtonDown(SELECT_BUTTON, pos)

NextPoint ==
    \/ \E c \in DOMAIN country_objs, lon \in QueryCoords, lat \in QueryCoords :
           ContainsPoint(c, lon, lat)
    \/ \E lon \in QueryCoords, lat \in QueryCoords :
           GetCountryAtPoint(lon, lat)
    \/ \E p \in GamePoints : SelectClick(p)

SpecPoint == InitPoint /\ [][NextPoint]_vars

---------------------------------------------------------------------------
(* SpecCountry: the methods of one Country as functions of its stored      *)
(* rings and of their arguments, called in any order.                      *)

\* A ring of 18 points: the outline of the box (0,0)-(40,20) with a vertex
\* every 5 degrees along its bottom and top sides.
LongRing ==
    [i \in 1..18 |-> IF i <= 9 THEN <<5 * (i - 1), 0>>
                     ELSE <<5 * (18 - i), 20>>]

\* A square whose second vertex is repeated (a zero-length edge).
RepeatedPointRing ==
    <<<<0, 0>>, <<10, 0>>, <<10, 0>>, <<10, 10>>, <<0, 10>>>>

\* Regions with degenerate rings (one and two points, a repeated point)
\* and regions with long rings.
CountryWorld ==
    <<Feature("Sliver", <<<<<<3, 3>>>>, <<<<0, 0>>, <<10, 10>>>>,
                          RepeatedPointRing>>),
      Feature("Dot", <<<<<<3, 3>>, <<3, 3>>>>, <<<<0, 5>>, <<10, 5>>>>>>),
      Feature("Coast", <<LongRing>>),
      Feature("Square", <<Box(0, 0, 10, 10)>>),
      Feature("Pair", <<Box(12, 2, 22, 12), LongRing>>)>>

\* Zoom levels across [MIN_ZOOM, MAX_ZOOM], the band thresholds included.
Zooms ==
    {MIN_ZOOM, <<1, 2>>, <<51, 100>>, FromInt(1), FromInt(2), FromInt(3),
     FromInt(4), FromInt(5), MAX_ZOOM}

\* Coordinates on and off the horizontal and zero-length edges.
RingCoords ==
    {FromInt(i) : i \in {-1, 0, 3, 5, 10, 20}} \cup {<<1, 2>>, <<7, 2>>}

\* Viewport rectangles <<min_lon, max_lon, min_lat, max_lat>>.
ViewRects ==
    {<<FromInt(12), FromInt(22), FromInt(-5), FromInt(5)>>,
     <<FromInt(-2), FromInt(7), FromInt(-5), FromInt(25)>>,
     <<FromInt(-3), FromInt(2), FromInt(-3), FromInt(2)>>,
     <<FromInt(18), FromInt(22), FromInt(-3), FromInt(3)>>,
     <<FromInt(-50), FromInt(100), FromInt(-50), FromInt(100)>>,
     <<FromInt(100), FromInt(120), FromInt(100), FromInt(120)>>,
     <<FromInt(4), FromInt(6), FromInt(8), FromInt(12)>>,
     <<<<25, 2>>, <<45, 2>>, FromInt(-5), FromInt(5)>>}

GetPolygons(c, at_zoom) ==
    /\ Step
    /\ last' = Call("get_polygons", <<c, at_zoom>>,
                    get_polygons(country_objs[c], at_zoom))
    /\ UNCHANGED <<offset_x, offset_y, zoom, last_viewport,
                   visible_countries, country_objs, countries,
                   selected_country, dragging, last_mouse_pos,
                   city_manager,
                   state, input_handler>>

\* One call on the freshly loaded country.
GetVisiblePolygons(c, view, at_zoom) ==
    /\ last.op = "init"
    /\ Step
    /\ last' = Call("get_visible_polygons", <<c, view, at_zoom>>,
                    get_visible_polygons(country_objs[c], view[1], view[2],
                                         view[3], view[4], at_zoom))
    /\ UNCHANGED <<offset_x, offset_y, zoom, last_viewport,
                   visible_countries, country_objs, countries,
                   selected_country, dragging, last_mouse_pos,
                   city_manager,
                   state, input_handler>>

\* Regions only the list-based Country can hold: an empty ring among
\* degenerate rings, and nothing but an empty ring.
ListFeatures ==
    {Feature("Sliver", <<<<>>, <<<<3, 3>>>>, <<<<0, 0>>, <<10, 10>>>>,
                         RepeatedPointRing>>),
     Feature("Void", <<<<>>>>)}

\* One call on a Country of the list-based src/country.py built from
\* `feature`.
ContainsPointOfLists(feature, lon, lat) ==
    /\ last.op = "init"
    /\ LET country == Country_of_lists(feature.name, feature.polygons)
       IN  last' = Call("contains_point_of_lists", <<country, lon, lat>>,
                        contains_point_of_lists(country, lon, lat))
    /\ UNCHANGED <<offset_x, offset_y, zoom, last_viewport,
                   visible_countries, country_objs, countries,
                   selected_country, dragging, last_mouse_pos, nsteps,
                   city_manager,
                   state, input_handler>>

InitCountry == Constructed(CountryWorld)

NextCountry ==
    \/ \E c \in DOMAIN country_objs, lon \in RingCoords, lat \in RingCoords :
           ContainsPoint(c, lon, lat)
    \/ \E f \in ListFeatures, lon \in RingCoords, lat \in RingCoords :
           ContainsPointOfLists(f, lon, lat)
    \/ \E c \in DOMAIN country_objs, z \in Zooms : GetPolygons(c, z)
    \/ \E c \in DOMAIN country_objs, v \in ViewRects, z \in Zooms :
           GetVisiblePolygons(c, v, z)

SpecCountry == InitCountry /\ [][NextCountry]_vars

---------------------------------------------------------------------------
(* SpecCache: pans, zooms and refreshes of the visible-country list, long  *)
(* enough for a refresh to meet a cached viewport that small pans moved,   *)
(* and the visibility test of the list-based renderer on the same view.    *)

\* Longest sequence of pan, zoom and refresh calls explored.
MaxCacheSteps == 4

\* Regions inside the initial viewport, inside its margin only, across the
\* margin's edge (lon 35 against the edge at 36), far outside, and with
\* its western edge on the exact value of the margin's edge.
CullWorld ==
    <<Feature("Testland", <<Box(-10, -10, 10, 10)>>),
      Feature("Other", <<Box(20, 20, 30, 30)>>),
      Feature("Edge", <<Box(35, 20, 45, 30)>>),
      Feature("Far", <<Box(100, 20, 110, 30)>>),
      Feature("Touch", <<Box(36, 0, 40, 5)>>)>>

\* Pans of less and of more than one degree (0.3 degrees per pixel at zoom
\* 1.0).
CachePans == {<<3, 0>>, <<1, 0>>, <<-99, 0>>}

CacheZoomFactors == {<<2, 1>>, <<1, 2>>}

CacheStep == nsteps < MaxCacheSteps /\ nsteps' = nsteps + 1

PanView(dx, dy) ==
    /\ CacheStep
    /\ SetRenderer(pan(Renderer, dx, dy))
    /\ last' = Call("pan", <<dx, dy>>, None)
    /\ UNCHANGED <<visible_countries, country_objs, countries,
                   selected_country, dragging, last_mouse_pos,
                   city_manager,
                   state, input_handler>>

ZoomView(factor, mouse_x, mouse_y) ==
    /\ CacheStep
    /\ \E r \in adjust_zoom(Renderer, factor, mouse_x, mouse_y) :
           SetRenderer(r)
    /\ last' = Call("adjust_zoom", <<factor, mouse_x, mouse_y>>, None)
    /\ UNCHANGED <<visible_countries, country_objs, countries,
                   selected_country, dragging, last_mouse_pos,
                   city_manager,
                   state, input_handler>>

RefreshVisible ==
    /\ CacheStep
    /\ \E r \in update_visible_countries(Renderer, visible_countries,
                                         Manager) :
           /\ last_viewport' = r[1]
           /\ visible_countries' = r[2]
    /\ last' = Call("update_visible_countries", <<>>, None)
    /\ UNCHANGED <<offset_x, offset_y, zoom, country_objs, countries,
                   selected_country, dragging, last_mouse_pos,
                   city_manager,
                   state, input_handler>>

\* The test the list-based draw and draw_country make for a country.
IsCountryVisible(id) ==
    /\ CacheStep
    /\ \E visible \in is_country_visible(Renderer, country_objs[id]) :
           last' = Call("is_country_visible", <<id>>, visible)
    /\ UNCHANGED <<offset_x, offset_y, zoom, last_viewport,
                   visible_countries, country_objs, countries,
                   selected_country, dragging, last_mouse_pos,
                   city_manager,
                   state, input_handler>>

InitCache == Constructed(CullWorld)

NextCache ==
    \/ \E d \in CachePans : PanView(d[1], d[2])
    \/ \E f \in CacheZoomFactors :
           ZoomView(f, WINDOW_WIDTH \div 2, WINDOW_HEIGHT \div 2)
    \/ RefreshVisible
    \/ \E id \in DOMAIN country_objs : IsCountryVisible(id)

SpecCache == InitCache /\ [][NextCache]_vars

---------------------------------------------------------------------------
(* SpecCity: one load of the two shapefiles into a new CityManager, then   *)
(* visibility queries in any order.                                        *)

\* Loads in several row orders, with equal populations in every order.
CityRowLists ==
    {TestCityRows,
     <<Esk, Cove, Bree, Ford, Aton, Dale>>,
     <<Dale, Cove, Ford, Esk, Bree>>,
     <<Ford, Bree>>,
     BigCityRows}

\* Population rows: both countries known, one country of four million,
\* rows without a usable population, and this with the next Country row.
CountryRowLists ==
    {TestCountryRows,
     <<CountryRow("AAA", 4000000)>>,
     <<CountryRow("AAA", 0), CountryRow("BBB", -99)>>,
     <<CountryRow("AAA", 1000000), CountryRow("AAA", 3000000)>>,
     BigCountryRows}

\* Zoom levels below, at and between the thresholds of the table.
CityZooms ==
    {<<1, 5>>, MIN_ZOOM, <<2, 5>>, <<1, 2>>, FromInt(1), FromInt(2),
     FromInt(3), FromInt(4), MAX_ZOOM}

\* Viewports <<min_lon, max_lon, min_lat, max_lat>>: all cities, those near
\* the origin, one far city, none, and bounds that lie on cities.
CityViews ==
    {<<FromInt(-50), FromInt(50), FromInt(-50), FromInt(50)>>,
     <<FromInt(-1), FromInt(6), FromInt(-1), FromInt(6)>>,
     <<FromInt(20), FromInt(30), FromInt(20), FromInt(30)>>,
     <<FromInt(100), FromInt(120), FromInt(100), FromInt(120)>>,
     <<<<1, 2>>, FromInt(5), FromInt(1), <<51, 2>>>>}

LoadFromShapefile(city_rows, country_rows) ==
    /\ last.op = "init"
    /\ city_manager' = load_from_shapefile(city_manager, city_rows,
                                           country_rows)
    /\ last' = Call("load_from_shapefile", <<city_rows, country_rows>>, None)
    /\ UNCHANGED <<offset_x, offset_y, zoom, last_viewport,
                   visible_countries, country_objs, countries,
                   selected_country, dragging, last_mouse_pos, nsteps,
                   state, input_handler>>

GetVisibleCities(view, at_zoom) ==
    /\ last.op # "init"
    /\ Step
    /\ last' = Call("get_visible_cities", <<view, at_zoom>>,
                    get_visible_cities(city_manager, view[1], view[2],
                                       view[3], view[4], at_zoom))
    /\ UNCHANGED <<offset_x, offset_y, zoom, last_viewport,
                   visible_countries, country_objs, countries,
                   selected_country, dragging, last_mouse_pos,
                   city_manager,
                   state, input_handler>>

InitCity == ConstructedWith(TestWorld, CityManager)

NextCity ==
    \/ \E rows \in CityRowLists, pops \in CountryRowLists :
           LoadFromShapefile(rows, pops)
    \/ \E v \in CityViews, z \in CityZooms : GetVisibleCities(v, z)

SpecCity == InitCity /\ [][NextCity]_vars

---------------------------------------------------------------------------
(* Properties of the selection state and of the coordinate transform,      *)
(* checked under SpecMap.                                                  *)

SelectedIds == {i \in DOMAIN country_objs : country_objs[i].selected}

\* C1: after any sequence of select_country calls at most one country is
\* flagged selected; after select_country(B) exactly B is flagged (so a
\* previously selected A is not) and selected_country is B; after
\* select_country(None) no country is flagged and selected_country is None.
C1_SelectionExclusive ==
    /\ Cardinality(SelectedIds) <= 1
    /\ last.op = "select_country" =>
           /\ selected_country = last.args[1]
           /\ SelectedIds = {last.args[1]} \ {NoCountry}

\* Country B was selected while another country A was selected.
C1_Witness ==
    /\ last.op = "select_country"
    /\ last.args[1] # NoCountry
    /\ last.pre.manager.selected_country \notin {NoCountry, last.args[1]}
    /\ last.pre.manager.objs[last.pre.manager.selected_country].selected

\* The anchor's geographic point moved by less than this many degrees.
Epsilon == <<1, 1000000>>

\* adjust_zoom's product zoom * factor lay strictly inside the zoom range.
ZoomNotSaturated ==
    LET v == RMul(last.pre.renderer.zoom, last.args[1])
    IN  RLt(MIN_ZOOM, v) /\ RLt(v, MAX_ZOOM)

\* C2: after adjust_zoom(factor, ax, ay) with a factor that does not
\* saturate the zoom bound, screen_to_geo(ax, ay) differs from its value
\* before the call by less than Epsilon in longitude and in latitude.
C2_ZoomAnchored ==
    (last.op = "adjust_zoom" /\ ZoomNotSaturated) =>
        LET before == screen_to_geo(last.pre.renderer,
                                    last.args[2], last.args[3])
            after == screen_to_geo(Renderer, last.args[2], last.args[3])
        IN  /\ RLt(RAbs(RSub(after[1], before[1])), Epsilon)
            /\ RLt(RAbs(RSub(after[2], before[2])), Epsilon)

\* clamp(v, MIN_ZOOM, MAX_ZOOM).
ClampZoom(v) ==
    IF RLt(v, MIN_ZOOM) THEN MIN_ZOOM
    ELSE IF RLt(MAX_ZOOM, v) THEN MAX_ZOOM
    ELSE v

\* C3: in every state reached by adjust_zoom and pan calls with positive
\* factors MIN_ZOOM <= zoom <= MAX_ZOOM, and adjust_zoom leaves
\* zoom = clamp(old zoom * factor, MIN_ZOOM, MAX_ZOOM).
C3_ZoomClamped ==
    /\ RLe(MIN_ZOOM, zoom) /\ RLe(zoom, MAX_ZOOM)
    /\ last.op = "adjust_zoom" =>
           zoom = ClampZoom(RMul(last.pre.renderer.zoom, last.args[1]))

\* An adjust_zoom whose product exceeded MAX_ZOOM, after an earlier call.
C3_Witness ==
    /\ last.op = "adjust_zoom"
    /\ nsteps > 1
    /\ RLt(MAX_ZOOM, RMul(last.pre.renderer.zoom, last.args[1]))
    /\ zoom = MAX_ZOOM

\* C4: when adjust_zoom leaves the zoom equal to the previous zoom (it
\* saturated at a bound), offset_x and offset_y are unchanged.
C4_SaturatedZoomKeepsOffset ==
    (last.op = "adjust_zoom" /\ zoom = last.pre.renderer.zoom) =>
        /\ offset_x = last.pre.renderer.offset_x
        /\ offset_y = last.pre.renderer.offset_y

\* adjust_zoom was called at MIN_ZOOM with a factor below one.
C4_Witness ==
    /\ last.op = "adjust_zoom"
    /\ last.pre.renderer.zoom = MIN_ZOOM
    /\ RLt(last.args[1], FromInt(1))
    /\ zoom = MIN_ZOOM

\* Screen points of the viewport: corners, edges, centre, interior.
ViewportSample ==
    {0, 1, 333, 600, WINDOW_WIDTH - 1, WINDOW_WIDTH}
        \X {0, 1, 400, 777, WINDOW_HEIGHT - 1, WINDOW_HEIGHT}

RoundTrip(p) ==
    LET geo == screen_to_geo(Renderer, p[1], p[2])
    IN  geo_to_screen(Renderer, geo[1], geo[2])

\* C5: in every pan/zoom state reached by pan and adjust_zoom, for every
\* screen point (x, y) of the viewport geo_to_screen(screen_to_geo(x, y))
\* is within one pixel of (x, y) in each coordinate.
C5_RoundTripWithinOnePixel ==
    \A p \in ViewportSample : \A q \in RoundTrip(p) :
        Abs(q[1] - p[1]) <= 1 /\ Abs(q[2] - p[2]) <= 1

\* After a pan and a zoom change, a round trip that can lose one pixel.
C5_Witness ==
    /\ last.op = "adjust_zoom"
    /\ last.pre.renderer.offset_x # WINDOW_WIDTH \div 2
    /\ zoom # last.pre.renderer.zoom
    /\ \E p \in ViewportSample : <<p[1] - 1, p[2]>> \in RoundTrip(p)

\* C6: pan(dx, dy) adds exactly (dx, dy) to (offset_x, offset_y), with no
\* clamping, and leaves the zoom and the selection state unchanged.
C6_PanAddsDelta ==
    last.op = "pan" =>
        /\ offset_x = last.pre.renderer.offset_x + last.args[1]
        /\ offset_y = last.pre.renderer.offset_y + last.args[2]
        /\ zoom = last.pre.renderer.zoom
        /\ Manager = last.pre.manager

\* A pan along both axes while a country was selected.
C6_Witness ==
    /\ last.op = "pan"
    /\ last.args[1] # 0
    /\ last.args[2] # 0
    /\ selected_country # NoCountry
    /\ country_objs[selected_country].selected

---------------------------------------------------------------------------
(* Properties of the point queries, checked under SpecPoint.               *)

\* The country and the point of the last contains_point call.
QCountry == country_objs[last.args[1]]
QLon == last.args[2]
QLat == last.args[3]

OutsideBox(c, lon, lat) ==
    \/ RLt(lon, FromInt(c.min_lon)) \/ RLt(FromInt(c.max_lon), lon)
    \/ RLt(lat, FromInt(c.min_lat)) \/ RLt(FromInt(c.max_lat), lat)

\* C7: contains_point returns False for every point outside the country's
\* cached bounding box, and evaluates the ray cast of no ring for it.
C7_BoxRejectsWithoutRayCast ==
    (last.op = "contains_point" /\ OutsideBox(QCountry, QLon, QLat)) =>
        /\ last.ret.ret = FALSE
        /\ last.ret.rays = 0

\* A point outside the box of a country that has several rings.
C7_Witness ==
    /\ last.op = "contains_point"
    /\ OutsideBox(QCountry, QLon, QLat)
    /\ Len(QCountry.polygons) > 1
    /\ last.ret.ret = FALSE

\* The horizontal ray from (lon, lat) crosses the ring's edge that ends at
\* vertex i: the edge spans lat, and its longitude at lat lies right of lon.
\* Written without division: (lon - xi)(yj - yi) against (xj - xi)(lat - yi),
\* with the sense of the comparison given by the sign of yj - yi.
RayCrossesEdge(ring, i, lon, lat) ==
    LET j == IF i = 1 THEN Len(ring) ELSE i - 1
        xi == ring[i][1]
        yi == ring[i][2]
        xj == ring[j][1]
        yj == ring[j][2]
        lhs == RMul(RSub(lon, FromInt(xi)), FromInt(yj - yi))
        rhs == RMul(FromInt(xj - xi), RSub(lat, FromInt(yi)))
    IN  /\ RLt(lat, FromInt(yi)) # RLt(lat, FromInt(yj))
        /\ IF yj > yi THEN RLt(lhs, rhs) ELSE RLt(rhs, lhs)

\* The even-odd rule for one ring: an odd number of crossed edges.
EvenOddInside(ring, lon, lat) ==
    Cardinality({i \in DOMAIN ring : RayCrossesEdge(ring, i, lon, lat)}) % 2
        = 1

\* C8: for a point inside the bounding box contains_point returns True iff
\* at least one ring contains the point under the even-odd rule applied to
\* that ring alone.
C8_UnionOfRings ==
    (last.op = "contains_point" /\ ~OutsideBox(QCountry, QLon, QLat)) =>
        (last.ret.ret <=>
            \E k \in DOMAIN QCountry.polygons :
                EvenOddInside(QCountry.polygons[k], QLon, QLat))

\* A point inside two overlapping rings of one country.
C8_Witness ==
    /\ last.op = "contains_point"
    /\ ~OutsideBox(QCountry, QLon, QLat)
    /\ Cardinality({k \in DOMAIN QCountry.polygons :
                       EvenOddInside(QCountry.polygons[k], QLon, QLat)}) = 2
    /\ last.ret.ret = TRUE

\* C9: for the square ring [(0,0),(10,0),(10,10),(0,10)] contains_point is
\* True for every strictly interior point, False for every strictly
\* exterior point, and gives every boundary point the answer it gives the
\* boundary point (0, 0).
C9_SquareClassification ==
    (last.op = "contains_point" /\ QCountry.polygons = <<Box(0, 0, 10, 10)>>)
    =>  LET in(lo, v, hi) == RLt(FromInt(lo), v) /\ RLt(v, FromInt(hi))
            out(lo, v, hi) == RLt(v, FromInt(lo)) \/ RLt(FromInt(hi), v)
            interior == in(0, QLon, 10) /\ in(0, QLat, 10)
            exterior == out(0, QLon, 10) \/ out(0, QLat, 10)
        IN  /\ interior => last.ret.ret = TRUE
            /\ exterior => last.ret.ret = FALSE
            /\ (~interior /\ ~exterior) =>
                   last.ret.ret =
                       contains_point(QCountry, FromInt(0), FromInt(0)).ret

\* The countries, in insertion order, that contain the point.
Matches(m, lon, lat) ==
    {k \in DOMAIN m.countries :
        contains_point(m.objs[m.countries[k]], lon, lat).ret}

FirstMatch(m, lon, lat) ==
    IF Matches(m, lon, lat) = {} THEN NoCountry
    ELSE m.countries[SetMin(Matches(m, lon, lat))]

NameOf(id) == IF id = NoCountry THEN "none" ELSE country_objs[id].name

\* C10: get_country_at_point, and the select click of Game.handle_input at
\* the clicked pixel's geographic point, yield the first country in
\* insertion order whose contains_point is True, and None when there is
\* none; with Testland (-10,-10)-(10,10) and Other (20,20)-(30,30) loaded
\* the query gives Testland at (0,0), Other at (25,25), none at (100,100).
C10_FirstMatchInInsertionOrder ==
    /\ last.op = "get_country_at_point" =>
           /\ last.ret = FirstMatch(Manager, last.args[1], last.args[2])
           /\ country_objs[1].name = "Testland" =>
                  /\ last.args = <<FromInt(0), FromInt(0)>>
                         => NameOf(last.ret) = "Testland"
                  /\ last.args = <<FromInt(25), FromInt(25)>>
                         => NameOf(last.ret) = "Other"
                  /\ last.args = <<FromInt(100), FromInt(100)>>
                         => NameOf(last.ret) = "none"
    /\ (last.op = "MOUSEBUTTONDOWN" /\ last.args[1] = SELECT_BUTTON) =>
           LET geo == screen_to_geo(last.pre.renderer,
                                    last.args[2][1], last.args[2][2])
           IN  selected_country = FirstMatch(last.pre.manager, geo[1], geo[2])

\* A query point inside two countries, answered with the one inserted
\* first although it is not the only match.
C10_Witness ==
    /\ last.op = "get_country_at_point"
    /\ Cardinality(Matches(Manager, last.args[1], last.args[2])) = 2
    /\ last.ret = countries[1]

---------------------------------------------------------------------------
(* Properties of the methods of Country, checked under SpecCountry.        *)

\* The index before i in a ring of n points, walking as the ray cast does.
PrevIndex(i, n) == IF i = 1 THEN n ELSE i - 1

IsDegenerate(ring) ==
    \/ Len(ring) < 3
    \/ \E i \in DOMAIN ring : ring[i] = ring[PrevIndex(i, Len(ring))]

\* C11: contains_point never raises (never divides by zero) for a country
\* holding a degenerate ring (fewer than 3 points, the empty ring included,
\* or two consecutive identical points), and a zero-length or horizontal
\* edge never toggles the inside flag.
C11_DegenerateRingsNeverRaise ==
    LET never_raises(country) ==
            /\ ~contains_point_raises(country, QLon, QLat)
            /\ \A k \in DOMAIN country.polygons :
                   \A i \in DOMAIN country.polygons[k] :
                       LET ring == country.polygons[k]
                           j == PrevIndex(i, Len(ring))
                       IN  ring[i][2] = ring[j][2] =>
                               ~edge_crosses(ring, i, j, QLon, QLat)
    IN  /\ last.op = "contains_point" => never_raises(QCountry)
        /\ last.op = "contains_point_of_lists" => never_raises(last.args[1])

\* A query on a country of the list-based revision that ray-casts an
\* empty ring, rings of one and two points and a ring with a repeated
\* point, on the latitude of a horizontal edge, and finds the point
\* inside.
C11_Witness ==
    /\ last.op = "contains_point_of_lists"
    /\ \E k \in DOMAIN last.args[1].polygons :
           Len(last.args[1].polygons[k]) = 0
    /\ \E k \in DOMAIN last.args[1].polygons :
           /\ Len(last.args[1].polygons[k]) >= 3
           /\ IsDegenerate(last.args[1].polygons[k])
    /\ last.ret.rays = Len(last.args[1].polygons)
    /\ QLat = FromInt(0)
    /\ last.ret.ret = TRUE

\* The rings stored by the country of the last get_polygons call.
StoredRings == country_objs[last.args[1]].polygons

\* C12: for every zoom in [MIN_ZOOM, MAX_ZOOM] and every ring of at least 3
\* points, the ring get_polygons returns has at least 3 points.
C12_DecimatedRingKeepsThreePoints ==
    last.op = "get_polygons" =>
        \A k \in DOMAIN StoredRings :
            Len(StoredRings[k]) >= 3 => Len(last.ret[k]) >= 3

\* C13: of two successive get_polygons calls on one country, the one with
\* the higher (or equal) zoom returns at least as many points for each ring.
C13_LodMonotonic ==
    [][(/\ last.op = "get_polygons" /\ last'.op = "get_polygons"
        /\ last.args[1] = last'.args[1]
        /\ RLe(last.args[2], last'.args[2]))
       => \A k \in DOMAIN last.ret : Len(last.ret[k]) <= Len(last'.ret[k])]_vars

\* A second call in a row, whose ring has more points than at MIN_ZOOM and
\* fewer than the stored ring.
C13_Witness ==
    /\ last.op = "get_polygons"
    /\ nsteps >= 2
    /\ last.pre.manager.objs = country_objs
    /\ \E k \in DOMAIN StoredRings :
           /\ Len(last.ret[k]) < Len(StoredRings[k])
           /\ Len(last.ret[k]) >
                  Len(get_polygons(country_objs[last.args[1]], MIN_ZOOM)[k])

\* The stride of the zoom band.
StrideOf(z) ==
    IF RLe(z, <<1, 2>>) THEN 16
    ELSE IF RLe(z, FromInt(1)) THEN 8
    ELSE IF RLe(z, FromInt(2)) THEN 4
    ELSE IF RLe(z, FromInt(4)) THEN 2
    ELSE 1

\* The points of a ring whose 0-based index is a multiple of s, in order.
EveryNth(ring, s) ==
    LET kept == SortedSeq({i \in 0..(Len(ring) - 1) : i % s = 0})
    IN  [m \in 1..Len(kept) |-> ring[kept[m] + 1]]

\* C14: get_polygons returns, for each stored ring, exactly the points at
\* indices 0, s, 2s, ... with s = 16, 8, 4, 2 for zoom <= 0.5, 1.0, 2.0,
\* 4.0 and s = 1 above, whatever calls came before, and leaves the stored
\* rings as they were.
C14_StrideByZoomBand ==
    last.op = "get_polygons" =>
        /\ last.ret = [k \in DOMAIN StoredRings |->
                          EveryNth(StoredRings[k], StrideOf(last.args[2]))]
        /\ country_objs = last.pre.manager.objs

\* A call that follows another call, at the threshold 0.5 of a band, on a
\* ring long enough for strides 8 and 16 to differ.
C14_Witness ==
    /\ last.op = "get_polygons"
    /\ nsteps >= 2
    /\ last.args[2] = <<1, 2>>
    /\ \E k \in DOMAIN StoredRings :
           Len(StoredRings[k]) = 18 /\ Len(last.ret[k]) = 2

\* The country, the viewport and the zoom of the last get_visible_polygons
\* call.
VCountry == country_objs[last.args[1]]
VView == last.args[2]
VZoom == last.args[3]

\* The point lies in the viewport widened by the one-degree margin.
InWidenedView(pt, view) ==
    /\ RLe(RSub(view[1], FromInt(1)), FromInt(pt[1]))
    /\ RLe(FromInt(pt[1]), RAdd(view[2], FromInt(1)))
    /\ RLe(RSub(view[3], FromInt(1)), FromInt(pt[2]))
    /\ RLe(FromInt(pt[2]), RAdd(view[4], FromInt(1)))

\* The maximal contiguous runs <<a, b>> of points of the ring in the
\* widened viewport.
MaximalRuns(ring, view) ==
    {r \in (DOMAIN ring) \X (DOMAIN ring) :
        /\ r[1] <= r[2]
        /\ \A i \in r[1]..r[2] : InWidenedView(ring[i], view)
        /\ r[1] = 1 \/ ~InWidenedView(ring[r[1] - 1], view)
        /\ r[2] = Len(ring) \/ ~InWidenedView(ring[r[2] + 1], view)}

\* A run with the point before it and the point after it, where the ring's
\* sequence has one.
ExtendedRun(ring, r) ==
    SubSeq(ring, IF r[1] > 1 THEN r[1] - 1 ELSE 1,
                 IF r[2] < Len(ring) THEN r[2] + 1 ELSE Len(ring))

\* The extended runs of one ring in the order of the ring, without those
\* of fewer than 3 points.
KeptRuns(ring, view) ==
    LET runs == MaximalRuns(ring, view)
        firsts == SortedSeq({r[1] : r \in runs})
        run(m) == CHOOSE r \in runs : r[1] = firsts[m]
    IN  SelectSeq([m \in 1..Len(firsts) |-> ExtendedRun(ring, run(m))],
                  LAMBDA sub : Len(sub) >= 3)

RECURSIVE ConcatAll(_, _)
ConcatAll(seqs, k) ==
    IF k > Len(seqs) THEN <<>> ELSE seqs[k] \o ConcatAll(seqs, k + 1)

BoxMeetsView(c, view) ==
    ~(\/ RLt(view[2], FromInt(c.min_lon)) \/ RLt(FromInt(c.max_lon), view[1])
      \/ RLt(view[4], FromInt(c.min_lat)) \/ RLt(FromInt(c.max_lat), view[3]))

\* C17: for a country whose box meets the viewport, get_visible_polygons
\* returns, ring by ring of the zoom's detail level, exactly the maximal
\* contiguous runs of points inside the margin-widened viewport, each with
\* one more point on each side where the ring's sequence has one, without
\* the sub-rings of fewer than 3 points, in the original order.
C17_RunsWithNeighbours ==
    (last.op = "get_visible_polygons" /\ BoxMeetsView(VCountry, VView)) =>
        last.ret =
            ConcatAll([k \in DOMAIN VCountry.polygons |->
                          KeptRuns(EveryNth(VCountry.polygons[k],
                                            StrideOf(VZoom)), VView)], 1)

\* A ring that gives two kept runs, each widened to 3 points (one by its
\* successor, one by its predecessor), at full detail.
C17_Witness ==
    /\ last.op = "get_visible_polygons"
    /\ BoxMeetsView(VCountry, VView)
    /\ Len(VCountry.polygons) = 1
    /\ Cardinality(MaximalRuns(VCountry.polygons[1], VView)) = 2
    /\ StrideOf(VZoom) = 1
    /\ Len(last.ret) = 2
    /\ \A m \in 1..2 : Len(last.ret[m]) = 3

---------------------------------------------------------------------------
(* Properties of the visible-country list, checked under SpecCache.        *)

\* The geographic rectangle of the window, and the same widened on every
\* side by the margin, a tenth of its width.
PlainView ==
    LET tl == screen_to_geo(Renderer, 0, 0)
        br == screen_to_geo(Renderer, WINDOW_WIDTH, WINDOW_HEIGHT)
    IN  [min_lon |-> tl[1], max_lon |-> br[1],
         min_lat |-> br[2], max_lat |-> tl[2]]

CullMargin == RDiv(RSub(PlainView.max_lon, PlainView.min_lon), FromInt(10))

WidenedView ==
    [min_lon |-> RSub(PlainView.min_lon, CullMargin),
     max_lon |-> RAdd(PlainView.max_lon, CullMargin),
     min_lat |-> RSub(PlainView.min_lat, CullMargin),
     max_lat |-> RAdd(PlainView.max_lat, CullMargin)]

BoxMeets(c, view) ==
    ~(\/ RLt(FromInt(c.max_lon), view.min_lon)
      \/ RGt(FromInt(c.min_lon), view.max_lon)
      \/ RLt(FromInt(c.max_lat), view.min_lat)
      \/ RGt(FromInt(c.min_lat), view.max_lat))

\* The sides of the four bounds of a viewport.
ViewRoundings == [1..4 -> Roundings]

\* BoxMeets for the viewport as the program holds it: the floats of the
\* bounds of `view`, lying on the sides r of their exact values, so that a
\* box edge on the exact value of a bound is beyond the float or not.
BoxMeetsFloats(c, view, r) ==
    ~(\/ RLt(FromInt(c.max_lon), view.min_lon)
      \/ FromInt(c.max_lon) = view.min_lon /\ r[1] > 0
      \/ RGt(FromInt(c.min_lon), view.max_lon)
      \/ FromInt(c.min_lon) = view.max_lon /\ r[2] < 0
      \/ RLt(FromInt(c.max_lat), view.min_lat)
      \/ FromInt(c.max_lat) = view.min_lat /\ r[3] > 0
      \/ RGt(FromInt(c.min_lat), view.max_lat)
      \/ FromInt(c.min_lat) = view.max_lat /\ r[4] < 0)

IsCandidate(id) == \E m \in DOMAIN visible_countries : visible_countries[m] = id

\* After update_visible_countries a country is in the list iff its box
\* meets the current viewport widened by the margin on every side.
UpdateKeepsBoxesMeetingWidenedView ==
    last.op = "update_visible_countries" =>
        \E r \in ViewRoundings :
            \A k \in DOMAIN countries :
                IsCandidate(countries[k])
                    <=> BoxMeetsFloats(country_objs[countries[k]],
                                       WidenedView, r)

\* C15 as stated: a country is a rendering candidate iff its box meets
\* the current viewport widened by the margin on every side, in the list
\* update_visible_countries leaves and in the test is_country_visible
\* makes before a country is drawn.
C15_CandidateIffBoxMeetsWidenedView ==
    /\ UpdateKeepsBoxesMeetingWidenedView
    /\ last.op = "is_country_visible" =>
           \E r \in ViewRoundings :
               last.ret = BoxMeetsFloats(country_objs[last.args[1]],
                                         WidenedView, r)

\* C16: immediately after each update_visible_countries call the list
\* equals the one a recomputation from the current pan and zoom gives.
C16_CacheNeverChangesResult ==
    last.op = "update_visible_countries" =>
        \E r \in ViewRoundings :
            visible_countries =
                SelectSeq(countries,
                          LAMBDA id : BoxMeetsFloats(country_objs[id],
                                                     WidenedView, r))

\* A refresh after a pan of less than one degree on every edge of the
\* viewport: the list before it is the one of the viewport before the pan,
\* and the refresh changes it.
C16_Witness ==
    /\ last.op = "update_visible_countries"
    /\ last.pre.visible # <<>>
    /\ visible_countries # last.pre.visible
    /\ \E d \in CachePans :
           LET before == expanded_viewport(pan(Renderer, -d[1], -d[2]))
           IN  /\ \A k \in 1..4 :
                      RLe(RAbs(RSub(before[k], last_viewport[k])), FromInt(1))
               /\ \E r \in ViewRoundings :
                      last.pre.visible = countries_in_view(Manager, before, r)

---------------------------------------------------------------------------
(* Properties of the city lists and of city visibility, checked under      *)
(* SpecCity.                                                               *)

\* The place of the city named `name` in the rows of the load.
LoadOrder(name) ==
    CHOOSE n \in DOMAIN last.args[1] : last.args[1][n].NAME = name

\* C18: after load_from_shapefile every per-country list is sorted by
\* non-increasing population, and cities of equal population stand in the
\* order of the load.
C18_GroupsSortedStable ==
    last.op = "load_from_shapefile" =>
        \A g \in DOMAIN city_manager.cities_by_country :
            LET list == city_manager.cities_by_country[g].cities
            IN  \A i, j \in DOMAIN list :
                    i < j =>
                        /\ list[i].population >= list[j].population
                        /\ list[i].population = list[j].population =>
                               LoadOrder(list[i].name) < LoadOrder(list[j].name)

\* A load whose rows put a city of smaller population first and hold three
\* cities of equal population of one country.
C18_Witness ==
    /\ last.op = "load_from_shapefile"
    /\ \E g \in DOMAIN city_manager.cities_by_country :
           LET list == city_manager.cities_by_country[g].cities
           IN  /\ \E i \in DOMAIN list :
                      LoadOrder(list[i].name) > i
               /\ \E i \in DOMAIN list :
                      /\ i + 2 \in DOMAIN list
                      /\ list[i].population = list[i + 2].population

\* The view and the zoom of the last get_visible_cities call.
CView == last.args[1]
CZoom == last.args[2]

CityInView(city, view) ==
    /\ RLe(view[1], FromInt(city.lon)) /\ RLe(FromInt(city.lon), view[2])
    /\ RLe(view[3], FromInt(city.lat)) /\ RLe(FromInt(city.lat), view[4])

\* The step table of the percentage.
PercentAt(z) ==
    IF RLt(z, <<1, 2>>) THEN <<3, 10>>
    ELSE IF RLt(z, FromInt(1)) THEN <<1, 2>>
    ELSE IF RLt(z, FromInt(2)) THEN <<7, 10>>
    ELSE IF RLt(z, FromInt(4)) THEN <<9, 10>>
    ELSE FromInt(1)

\* max(3, population in millions) of a region; no entry counts as 0.
Quota(country) ==
    LET pops == city_manager.country_populations
        millions == IF country \in DOMAIN pops
                    THEN pops[country] \div 1000000 ELSE 0
    IN  IF millions > 3 THEN millions ELSE 3

\* The cities of the result that belong to the region, in result order.
ShownOf(country) == SelectSeq(last.ret, LAMBDA city : city.country = country)

\* The region's sorted list restricted to the viewport.
InViewOf(group) ==
    SelectSeq(group.cities, LAMBDA city : CityInView(city, CView))

IsPrefix(a, b) == Len(a) <= Len(b) /\ a = SubSeq(b, 1, Len(a))

\* C19 as stated: for every region the result holds the top-population
\* cities of the region in the viewport, at most the zoom's percentage of
\* the quota max(3, population in millions) of them.
C19_AtMostPercentOfQuota ==
    last.op = "get_visible_cities" =>
        \A g \in DOMAIN city_manager.cities_by_country :
            LET group == city_manager.cities_by_country[g]
                shown == ShownOf(group.country)
            IN  /\ IsPrefix(shown, InViewOf(group))
                /\ RLe(FromInt(Len(shown)),
                       RMul(PercentAt(CZoom), FromInt(Quota(group.country))))

\* The whole number of cities the percentage of the quota allows, with the
\* floor of 2.
Allowed(country) ==
    LET part == Trunc(RMul(PercentAt(CZoom), FromInt(Quota(country))))
    IN  IF part > 2 THEN part ELSE 2

\* C19 amended: for every region the result holds the top-population
\* cities of the region in the viewport, at most max(2, the zoom's
\* percentage of the quota rounded down) of them.
C19_AtMostPercentOfQuotaOrTwo ==
    last.op = "get_visible_cities" =>
        \A g \in DOMAIN city_manager.cities_by_country :
            LET group == city_manager.cities_by_country[g]
                shown == ShownOf(group.country)
            IN  /\ IsPrefix(shown, InViewOf(group))
                /\ Len(shown) <= Allowed(group.country)

\* A region with more cities in the viewport than it may show, showing 3
\* of them at 90% of a quota of 4.
C19_Witness ==
    /\ last.op = "get_visible_cities"
    /\ \E g \in DOMAIN city_manager.cities_by_country :
           LET group == city_manager.cities_by_country[g]
           IN  /\ Quota(group.country) = 4
               /\ PercentAt(CZoom) = <<9, 10>>
               /\ Len(ShownOf(group.country)) = 3
               /\ Len(InViewOf(group)) > 3

CitySet(seq) == {seq[i] : i \in DOMAIN seq}

\* C20: of two successive get_visible_cities calls with the same viewport,
\* the one with the higher (or equal) zoom returns a superset of the
\* cities of the other.
C20_VisibleCitiesMonotonic ==
    [][(/\ last.op = "get_visible_cities" /\ last'.op = "get_visible_cities"
        /\ last.args[1] = last'.args[1]
        /\ RLe(last.args[2], last'.args[2]))
       => CitySet(last.ret) \subseteq CitySet(last'.ret)]_vars

\* A call that follows another call and returns more cities than the same
\* viewport gives at the lowest zoom, and fewer than lie in the viewport.
C20_Witness ==
    /\ last.op = "get_visible_cities"
    /\ nsteps >= 2
    /\ Len(last.ret) >
           Len(get_visible_cities(city_manager, CView[1], CView[2],
                                  CView[3], CView[4], <<1, 5>>))
    /\ Len(last.ret) <
           Cardinality({i \in DOMAIN city_manager.cities :
                           CityInView(city_manager.cities[i], CView)})


---------------------------------------------------------------------------
(* SpecLoad: loads and reloads of a CountryManager and selections of the   *)
(* countries it holds, in any order.                                       *)

MaxLoadSteps == 3

\* A region with a one-point ring, a two-point ring and a square, and a
\* well-formed region after it.
MalformedWorld ==
    <<Feature("Sliver", <<<<<<3, 3>>>>, <<<<0, 0>>, <<10, 10>>>>,
                          Box(0, 0, 10, 10)>>),
      Feature("Other", <<Box(20, 20, 30, 30)>>)>>

\* Two features of one name.
RepeatedNameWorld ==
    <<Feature("Testland", <<Box(-10, -10, 10, 10)>>),
      Feature("Testland", <<Box(40, 40, 50, 50)>>)>>

\* A well-formed region, a region with an empty ring among its rings, and
\* a region after it.
EmptyRingWorld ==
    <<Feature("Testland", <<Box(-10, -10, 10, 10)>>),
      Feature("Sliver", <<<<>>, Box(0, 0, 10, 10)>>),
      Feature("Other", <<Box(20, 20, 30, 30)>>)>>

LoadWorlds == {TestWorld, MalformedWorld, RepeatedNameWorld, EmptyRingWorld}

\* The objects the manager's dict holds.
HeldCountries == {countries[k] : k \in DOMAIN countries}

LoadStep == nsteps < MaxLoadSteps /\ nsteps' = nsteps + 1

LoadFromGeojson(world) ==
    /\ LoadStep
    /\ SetManager(load_from_geojson(Manager, world))
    /\ last' = Call("load_from_geojson", <<world>>,
                    Raised(load_from_geojson_raises(world)))
    /\ UNCHANGED <<offset_x, offset_y, zoom, last_viewport,
                   visible_countries, dragging, last_mouse_pos,
                   city_manager,
                   state, input_handler>>

\* The load of the list-based CountryManager.
LoadFromGeojsonWithoutClear(world) ==
    /\ LoadStep
    /\ SetManager(load_from_geojson_without_clear(Manager, world))
    /\ last' = Call("load_from_geojson", <<world>>, Raised("None"))
    /\ UNCHANGED <<offset_x, offset_y, zoom, last_viewport,
                   visible_countries, dragging, last_mouse_pos,
                   city_manager,
                   state, input_handler>>

\* select_country with None or a country the manager holds.
SelectHeldCountry(country) ==
    /\ LoadStep
    /\ SetManager(select_country(Manager, country))
    /\ last' = Call("select_country", <<country>>, None)
    /\ UNCHANGED <<offset_x, offset_y, zoom, last_viewport,
                   visible_countries, dragging, last_mouse_pos,
                   city_manager,
                   state, input_handler>>

\* CountryManager.__init__: nothing loaded yet.
InitLoad == ConstructedWith(<<>>, CityManager)

NextLoad ==
    \/ \E w \in LoadWorlds : LoadFromGeojson(w)
    \/ \E w \in LoadWorlds : LoadFromGeojsonWithoutClear(w)
    \/ \E c \in {NoCountry} \cup HeldCountries : SelectHeldCountry(c)

SpecLoad == InitLoad /\ [][NextLoad]_vars

---------------------------------------------------------------------------
(* SpecView: the two visibility queries on viewport rectangles without     *)
(* area.                                                                   *)

\* Rectangles <<min_lon, max_lon, min_lat, max_lat>> with min >= max on an
\* axis: a point on a city and on a ring vertex, a point off both, a
\* vertical and a horizontal line, and inverted rectangles.
DegenerateViews ==
    {<<FromInt(0), FromInt(0), FromInt(0), FromInt(0)>>,
     <<FromInt(5), FromInt(5), FromInt(0), FromInt(0)>>,
     <<<<7, 2>>, <<7, 2>>, <<7, 2>>, <<7, 2>>>>,
     <<FromInt(5), FromInt(5), FromInt(-50), FromInt(50)>>,
     <<FromInt(-50), FromInt(50), FromInt(5), FromInt(5)>>,
     <<FromInt(6), FromInt(5), FromInt(1), FromInt(0)>>,
     <<FromInt(50), FromInt(-50), FromInt(50), FromInt(-50)>>,
     <<FromInt(50), FromInt(-50), FromInt(-50), FromInt(50)>>}

ViewZooms == {MIN_ZOOM, FromInt(1), FromInt(4), MAX_ZOOM}

InitView == Constructed(CountryWorld)

NextView ==
    \/ \E c \in DOMAIN country_objs, v \in DegenerateViews, z \in ViewZooms :
           GetVisiblePolygons(c, v, z)
    \/ \E v \in DegenerateViews, z \in ViewZooms : GetVisibleCities(v, z)

SpecView == InitView /\ [][NextView]_vars

---------------------------------------------------------------------------
(* SpecBox: every operation on the countries of a loaded map.              *)

\* Colours random.randint(100, 200) can give to a country.
Colors == {<<100, 150, 200>>, <<120, 120, 120>>}

BoxCoords == {FromInt(-1), FromInt(5), FromInt(11), <<37, 2>>}

BoxViews ==
    {<<FromInt(-2), FromInt(7), FromInt(-5), FromInt(25)>>,
     <<FromInt(100), FromInt(120), FromInt(100), FromInt(120)>>}

BoxZooms == {MIN_ZOOM, FromInt(2), MAX_ZOOM}

GetColor(c, color) ==
    /\ Step
    /\ last' = Call("get_color", <<c, color>>,
                    get_color(country_objs[c], color))
    /\ UNCHANGED <<offset_x, offset_y, zoom, last_viewport,
                   visible_countries, country_objs, countries,
                   selected_country, dragging, last_mouse_pos,
                   city_manager,
                   state, input_handler>>

InitBox == Constructed(ShapesWorld)

NextBox ==
    \/ \E c \in DOMAIN country_objs, lon \in BoxCoords, lat \in BoxCoords :
           ContainsPoint(c, lon, lat)
    \/ \E c \in DOMAIN country_objs, z \in BoxZooms : GetPolygons(c, z)
    \/ \E c \in DOMAIN country_objs, v \in BoxViews, z \in BoxZooms :
           GetVisiblePolygons(c, v, z)
    \/ \E c \in DOMAIN country_objs, col \in Colors : GetColor(c, col)
    \/ \E c \in {NoCountry} \cup DOMAIN country_objs : SelectCountry(c)

SpecBox == InitBox /\ [][NextBox]_vars

---------------------------------------------------------------------------
(* src/main.py, game/game_state.py, game/input_handler.py: the EuropaGame  *)
(* variant.  Floats are exact rationals; int() is IntOutcomes.             *)

\* Python's None where the other values are country names.
NoName == "None"

\* EuropaGame.__init__(width=1024, height=768).
width == 1024
height == 768

\* GameState.__init__.
GameState(w, h) ==
    [width |-> w, height |-> h, selected_country |-> NoName,
     x_offset |-> FromInt(0), y_offset |-> FromInt(0), zoom |-> FromInt(1),
     bounds |-> None, scale |-> None]

\* GameState.set_map_bounds.
set_map_bounds(self, bounds, scale) ==
    [self EXCEPT !.bounds = bounds, !.scale = scale]

\* The loop of GameState.transform_coords from the k-th point on: a point
\* is kept when both screen coordinates lie in (-10000, 10000).  The
\* screen coordinates are floats, so the result is the set of the lists
\* int() can give (see IntOutcomes).
RECURSIVE transform_from(_, _, _)
transform_from(self, coords, k) ==
    IF k > Len(coords) THEN {<<>>}
    ELSE LET x == coords[k][1]
             y == coords[k][2]
             screen_x ==
                 RAdd(RMul(RMul(RSub(x, self.bounds[1]), self.scale),
                           self.zoom),
                      self.x_offset)
             screen_y ==
                 RSub(FromInt(self.height),
                      RAdd(RMul(RMul(RSub(y, self.bounds[2]), self.scale),
                                self.zoom),
                           self.y_offset))
             points ==
                 IF /\ RLt(FromInt(-10000), screen_x)
                    /\ RLt(screen_x, FromInt(10000))
                    /\ RLt(FromInt(-10000), screen_y)
                    /\ RLt(screen_y, FromInt(10000))
                 THEN {<<<<sx, sy>>>> : sx \in IntOutcomes(screen_x),
                                        sy \in IntOutcomes(screen_y)}
                 ELSE {<<>>}
         IN  {point \o rest : point \in points,
                              rest \in transform_from(self, coords, k + 1)}

\* GameState.transform_coords: the set of the lists it can return.
transform_coords(self, coords) ==
    IF self.bounds = None \/ self.scale = None THEN {<<>>}
    ELSE transform_from(self, coords, 1)

\* GameState.screen_to_geo.
GameState_screen_to_geo(self, screen_x, screen_y) ==
    IF self.bounds = None \/ self.scale = None
    THEN <<FromInt(0), FromInt(0)>>
    ELSE <<RAdd(RDiv(RSub(FromInt(screen_x), self.x_offset),
                     RMul(self.scale, self.zoom)),
                self.bounds[1]),
           RAdd(RDiv(RSub(RSub(FromInt(self.height), FromInt(screen_y)),
                          self.y_offset),
                     RMul(self.scale, self.zoom)),
                self.bounds[2])>>

\* An update that stores every argument, None included.
update_storing_none(self, name, off_x, off_y, at_zoom) ==
    [self EXCEPT !.selected_country = name,
                 !.x_offset = off_x,
                 !.y_offset = off_y,
                 !.zoom = at_zoom]

\* GameState.update: an argument that is None leaves its field alone.
update(self, name, off_x, off_y, at_zoom) ==
    [self EXCEPT
        !.selected_country = IF name # NoName THEN name ELSE @,
        !.x_offset = IF off_x # None THEN off_x ELSE @,
        !.y_offset = IF off_y # None THEN off_y ELSE @,
        !.zoom = IF at_zoom # None THEN at_zoom ELSE @]

\* InputHandler.__init__.
pan_speed == 10
zoom_speed == <<11, 10>>
min_zoom == <<1, 2>>
max_zoom == <<5, 1>>

InputHandler ==
    [offset_x |-> FromInt(0), offset_y |-> FromInt(0), zoom |-> FromInt(1),
     dragging |-> FALSE, last_mouse_pos |-> None]

\* An event of pygame's queue.
Event(type, button, y) == [type |-> type, button |-> button, y |-> y]

\* geometry.contains(point) for a rectangle <<x0, y0, x1, y1>>: the point
\* lies in the interior.
geometry_contains(geometry, x, y) ==
    /\ RLt(FromInt(geometry[1]), x) /\ RLt(x, FromInt(geometry[3]))
    /\ RLt(FromInt(geometry[2]), y) /\ RLt(y, FromInt(geometry[4]))

\* The loop over countries_gdf.iterrows(): the NAME of the first country
\* whose geometry contains the point; `name` when there is none.
RECURSIVE first_containing(_, _, _, _, _)
first_containing(countries_gdf, x, y, k, name) ==
    IF k > Len(countries_gdf) THEN name
    ELSE IF geometry_contains(countries_gdf[k].geometry, x, y)
         THEN countries_gdf[k].NAME
         ELSE first_containing(countries_gdf, x, y, k + 1, name)

\* The arrow keys of handle_input: four independent tests.
pan_with_keys(self, pressed) ==
    LET dx == (IF "K_LEFT" \in pressed THEN pan_speed ELSE 0)
              - (IF "K_RIGHT" \in pressed THEN pan_speed ELSE 0)
        dy == (IF "K_UP" \in pressed THEN pan_speed ELSE 0)
              - (IF "K_DOWN" \in pressed THEN pan_speed ELSE 0)
    IN  [self EXCEPT !.offset_x = RAdd(@, FromInt(dx)),
                     !.offset_y = RAdd(@, FromInt(dy))]

\* The body of the event loop for one event.  `run` is the handler, the
\* local selected_country, and two records of what the event did: whether
\* the hit test ran, and whether a motion event has moved the map since
\* the left button went down.
handle_event(run, event, mouse_pos, geo, countries_gdf) ==
    LET self == run.self
    IN  IF event.type = "MOUSEWHEEL"
        THEN LET old_zoom == self.zoom
                 new_zoom ==
                     IF event.y > 0
                     THEN RMin(RMul(self.zoom, zoom_speed), max_zoom)
                     ELSE RMax(RDiv(self.zoom, zoom_speed), min_zoom)
                 zoom_factor == RDiv(new_zoom, old_zoom)
                 anchored(m, offset) ==
                     RSub(FromInt(m),
                          RMul(RSub(FromInt(m), offset), zoom_factor))
             IN  [run EXCEPT
                     !.self = [self EXCEPT
                         !.zoom = new_zoom,
                         !.offset_x = anchored(mouse_pos[1], @),
                         !.offset_y = anchored(mouse_pos[2], @)],
                     !.hit_test = FALSE]
        ELSE IF event.type = "MOUSEBUTTONDOWN" /\ event.button = 1
        THEN [run EXCEPT
                 !.self = [self EXCEPT !.dragging = TRUE,
                                       !.last_mouse_pos = mouse_pos],
                 !.hit_test = FALSE,
                 !.moved = FALSE]
        ELSE IF event.type = "MOUSEBUTTONUP" /\ event.button = 1
        THEN LET click == self.dragging /\ self.last_mouse_pos = mouse_pos
                 point == GameState_screen_to_geo(geo, mouse_pos[1],
                                                  mouse_pos[2])
             IN  [run EXCEPT
                     !.self = [self EXCEPT !.dragging = FALSE,
                                           !.last_mouse_pos = None],
                     !.selected_country =
                         IF click
                         THEN first_containing(countries_gdf, point[1],
                                               point[2], 1, @)
                         ELSE @,
                     !.hit_test = click,
                     !.moved = FALSE]
        ELSE IF /\ event.type = "MOUSEMOTION"
                /\ self.dragging /\ self.last_mouse_pos # None
        THEN LET dx == mouse_pos[1] - self.last_mouse_pos[1]
                 dy == mouse_pos[2] - self.last_mouse_pos[2]
             IN  [run EXCEPT
                     !.self = [self EXCEPT
                         !.offset_x = RAdd(@, FromInt(dx)),
                         !.offset_y = RAdd(@, FromInt(dy)),
                         !.last_mouse_pos = mouse_pos],
                     !.hit_test = FALSE,
                     !.moved = @ \/ dx # 0 \/ dy # 0]
        ELSE [run EXCEPT !.hit_test = FALSE]

\* The event loop: the records after each of the events k.. in turn.
RECURSIVE handle_events(_, _, _, _, _, _)
handle_events(run, events, k, mouse_pos, geo, countries_gdf) ==
    IF k > Len(events) THEN <<>>
    ELSE LET after == handle_event(run, events[k], mouse_pos, geo,
                                   countries_gdf)
         IN  <<after>> \o handle_events(after, events, k + 1, mouse_pos,
                                        geo, countries_gdf)

\* InputHandler.handle_input.  `pressed` is pygame.key.get_pressed() and
\* `mouse_pos` pygame.mouse.get_pos(), both read once; `geo` is the
\* GameState whose screen_to_geo is passed in; `moved` is the drag record
\* the previous call left.  The result holds the handler, the returned
\* selected_country and the record after each event.
handle_input(self, countries_gdf, geo, pressed, mouse_pos, events, moved) ==
    LET start == [self |-> pan_with_keys(self, pressed),
                  selected_country |-> NoName,
                  hit_test |-> FALSE,
                  moved |-> moved]
        trace == handle_events(start, events, 1, mouse_pos, geo,
                               countries_gdf)
        end == IF trace = <<>> THEN start ELSE trace[Len(trace)]
    IN  [self |-> end.self, selected_country |-> end.selected_country,
         moved |-> end.moved, start |-> start, trace |-> trace]

---------------------------------------------------------------------------
(* SpecEuropa: the frames of EuropaGame.run.                               *)

MaxFrames == 2

\* The frame of countries load_map_data has after projecting and clipping:
\* two countries in the middle of the map and two capes in its corners.
\* A geometry is a rectangle <<minx, miny, maxx, maxy>>.
countries_gdf ==
    <<[NAME |-> "Norland", geometry |-> <<300, 450, 460, 600>>],
      [NAME |-> "Sudland", geometry |-> <<300, 150, 460, 350>>],
      [NAME |-> "Westcape", geometry |-> <<0, 0, 10, 10>>],
      [NAME |-> "Eastcape", geometry |-> <<1014, 758, 1024, 768>>]>>

\* GeoDataFrame.total_bounds: the least minx and miny and the greatest
\* maxx and maxy of the geometries.
total_bounds(gdf) ==
    LET least(c) ==
            CHOOSE v \in {gdf[i].geometry[c] : i \in DOMAIN gdf} :
                \A i \in DOMAIN gdf : v <= gdf[i].geometry[c]
        greatest(c) ==
            CHOOSE v \in {gdf[i].geometry[c] : i \in DOMAIN gdf} :
                \A i \in DOMAIN gdf : v >= gdf[i].geometry[c]
    IN  <<FromInt(least(1)), FromInt(least(2)),
          FromInt(greatest(3)), FromInt(greatest(4))>>

\* The end of DataLoader.load_map_data: the bounds of the frame and
\* scale = min(width / x extent, height / y extent) * 0.9.
load_map_data(gdf, w, h) ==
    LET bounds == total_bounds(gdf)
        x_scale == RDiv(FromInt(w), RSub(bounds[3], bounds[1]))
        y_scale == RDiv(FromInt(h), RSub(bounds[4], bounds[2]))
    IN  [countries_gdf |-> gdf, bounds |-> bounds,
         scale |-> RMul(RMin(x_scale, y_scale), <<9, 10>>)]

\* EuropaGame.__init__: the bounds and the scale load_map_data returned.
map_bounds == load_map_data(countries_gdf, width, height).bounds

map_scale == load_map_data(countries_gdf, width, height).scale

\* The keys held down during a frame.
PressedKeys == {{}, {"K_LEFT", "K_UP"}, {"K_RIGHT", "K_DOWN"}}

\* Positions of the mouse: over Norland, over water, over Sudland.
EuropaMousePoints == {<<400, 300>>, <<500, 300>>, <<400, 500>>}

\* The events of one frame.
EventLists ==
    LET wheel(y) == Event("MOUSEWHEEL", 0, y)
        down(b) == Event("MOUSEBUTTONDOWN", b, 0)
        up(b) == Event("MOUSEBUTTONUP", b, 0)
        motion == Event("MOUSEMOTION", 0, 0)
    IN  {<<>>, <<wheel(1)>>, <<wheel(-1)>>, <<down(1)>>, <<up(1)>>,
         <<motion>>, <<down(1), up(1)>>, <<motion, up(1)>>,
         <<down(3), up(3)>>}

\* No hoi4clone Game is running.
NoGame ==
    /\ offset_x = 0
    /\ offset_y = 0
    /\ zoom = INITIAL_ZOOM
    /\ last_viewport = None
    /\ visible_countries = <<>>
    /\ country_objs = <<>>
    /\ countries = <<>>
    /\ selected_country = NoCountry
    /\ dragging = FALSE
    /\ last_mouse_pos = None
    /\ city_manager = CityManager

\* EuropaGame.__init__: the view is centred on the map at zoom 0.7; the
\* GameState keeps its own offsets and zoom until the first update.
InitEuropa ==
    LET center_x == RDiv(RAdd(map_bounds[3], map_bounds[1]), FromInt(2))
        center_y == RDiv(RAdd(map_bounds[4], map_bounds[2]), FromInt(2))
        centred(size, center, low) ==
            RSub(RDiv(FromInt(size), FromInt(2)),
                 RMul(RMul(RSub(center, low), map_scale), <<7, 10>>))
    IN  /\ NoGame
        /\ state = set_map_bounds(GameState(width, height), map_bounds,
                                  map_scale)
        /\ input_handler =
               [InputHandler EXCEPT
                   !.offset_x = centred(width, center_x, map_bounds[1]),
                   !.offset_y = centred(height, center_y, map_bounds[2]),
                   !.zoom = <<7, 10>>]
        /\ last = [op |-> "init", args |-> <<>>, pre |-> <<>>,
                   ret |-> [moved |-> FALSE]]
        /\ nsteps = 0

\* One iteration of the loop of EuropaGame.run: handle_input, then
\* GameState.update with what it returned.
Frame(pressed, mouse_pos, events) ==
    /\ nsteps < MaxFrames
    /\ nsteps' = nsteps + 1
    /\ \E r \in {handle_input(input_handler, countries_gdf, state,
                                pressed, mouse_pos, events,
                                last.ret.moved)} :
           /\ input_handler' = r.self
           /\ state' = update(state, r.selected_country, r.self.offset_x,
                              r.self.offset_y, r.self.zoom)
           /\ last' = [op |-> "handle_input",
                       args |-> <<pressed, mouse_pos, events>>,
                       pre |-> [state |-> state,
                                input_handler |-> input_handler],
                       ret |-> r]
    /\ UNCHANGED <<offset_x, offset_y, zoom, last_viewport,
                   visible_countries, country_objs, countries,
                   selected_country, dragging, last_mouse_pos,
                   city_manager>>

NextEuropa ==
    \E pressed \in PressedKeys, mouse_pos \in EuropaMousePoints,
       events \in EventLists : Frame(pressed, mouse_pos, events)

SpecEuropa == InitEuropa /\ [][NextEuropa]_vars

---------------------------------------------------------------------------
(* SpecDrag: event sequences of Game.handle_input long enough for a press, *)
(* two motions and a release.  The result field of the call record keeps   *)
(* the account of the drag: where the drag button went down, where the     *)
(* last motion event of the drag was, and the sum of the offset changes    *)
(* its motion events made.                                                 *)

MaxDragSteps == 4

DragStep == nsteps < MaxDragSteps /\ nsteps' = nsteps + 1

NoDrag ==
    [press |-> None, at |-> None, pan |-> <<0, 0>>, motions |-> 0,
     released |-> FALSE]

\* The account so far; it starts afresh after a release.
DragRecord ==
    IF last.op = "init" THEN NoDrag
    ELSE IF last.ret.released THEN NoDrag
    ELSE last.ret

DragPoints == {<<100, 100>>, <<130, 90>>, <<90, 140>>}

\* Presses of the drag button at every position, and a wheel step.
DragPresses ==
    {<<DRAG_BUTTON, p>> : p \in DragPoints} \cup {<<4, <<100, 100>>>>}

DragKeys == {"K_LEFT"}

DragPress(button, pos) ==
    /\ DragStep
    /\ \E g \in on_mouse_button_down(Game, button, pos) : SetGame(g)
    /\ last' = Call("MOUSEBUTTONDOWN", <<button, pos>>,
                    IF button = DRAG_BUTTON
                    THEN [NoDrag EXCEPT !.press = pos, !.at = pos]
                    ELSE DragRecord)
    /\ UNCHANGED <<visible_countries, city_manager, state, input_handler>>

DragRelease(button) ==
    /\ DragStep
    /\ SetGame(on_mouse_button_up(Game, button))
    /\ last' = Call("MOUSEBUTTONUP", <<button>>,
                    IF button = DRAG_BUTTON
                    THEN [DragRecord EXCEPT !.released = TRUE]
                    ELSE DragRecord)
    /\ UNCHANGED <<visible_countries, city_manager, state, input_handler>>

DragMotion(pos) ==
    /\ DragStep
    /\ LET g == on_mouse_motion(Game, pos)
           d == DragRecord
       IN  /\ SetGame(g)
           /\ last' = Call("MOUSEMOTION", <<pos>>,
                  IF d.press # None
                  THEN [d EXCEPT
                           !.at = pos,
                           !.pan = <<@[1] + g.renderer.offset_x - offset_x,
                                     @[2] + g.renderer.offset_y - offset_y>>,
                           !.motions = @ + 1]
                  ELSE d)
    /\ UNCHANGED <<visible_countries, city_manager, state, input_handler>>

DragKeyDown(key) ==
    /\ DragStep
    /\ SetGame(on_key_down(Game, key))
    /\ last' = Call("KEYDOWN", <<key>>, DragRecord)
    /\ UNCHANGED <<visible_countries, city_manager, state, input_handler>>

InitDrag == Constructed(TestWorld)

NextDrag ==
    \/ \E e \in DragPresses : DragPress(e[1], e[2])
    \/ DragRelease(DRAG_BUTTON)
    \/ \E p \in DragPoints : DragMotion(p)
    \/ \E k \in DragKeys : DragKeyDown(k)

SpecDrag == InitDrag /\ [][NextDrag]_vars

---------------------------------------------------------------------------
(* Error handling of the loaders and of the visibility queries.            *)

\* The region keys that have an entry among the loaded populations.
ResolvedOwners == DOMAIN city_manager.country_populations

\* C21 as stated: a city whose owning region has no entry in
\* country_populations is retained in the city collection and is never
\* returned by get_visible_cities.
C21_UnresolvedOwnerNeverShown ==
    /\ last.op = "load_from_shapefile" =>
           \A n \in DOMAIN last.args[1] :
               \E i \in DOMAIN city_manager.cities :
                   /\ city_manager.cities[i].name = last.args[1][n].NAME
                   /\ city_manager.cities[i].country = last.args[1][n].SOV_A3
    /\ last.op = "get_visible_cities" =>
           \A i \in DOMAIN last.ret : last.ret[i].country \in ResolvedOwners


\* C22 as stated: after a load no country the manager holds stores a ring
\* with fewer than 3 points, and every feature of the load has its country
\* in the dict (the load went through).
C22_ShortRingsSkipped ==
    last.op = "load_from_geojson" =>
        /\ \A n \in DOMAIN last.args[1] :
               \E c \in HeldCountries :
                   country_objs[c].name = last.args[1][n].name
        /\ \A c \in HeldCountries :
               \A k \in DOMAIN country_objs[c].polygons :
                   Len(country_objs[c].polygons[k]) >= 3


\* A rectangle with no area: min >= max on an axis.
IsDegenerateView(view) == RGe(view[1], view[2]) \/ RGe(view[3], view[4])

\* C23 as stated: for a zero-area or inverted viewport rectangle
\* get_visible_polygons and get_visible_cities return an empty list.
C23_DegenerateViewShowsNothing ==
    /\ (last.op = "get_visible_polygons" /\ IsDegenerateView(last.args[2]))
           => last.ret = <<>>
    /\ (last.op = "get_visible_cities" /\ IsDegenerateView(last.args[1]))
           => last.ret = <<>>


---------------------------------------------------------------------------
(* The bounding box of a country.                                          *)

\* The box of a country is the hull of the points of all its rings: no
\* point lies outside it and every bound is the coordinate of some point.
BoxIsHull(country) ==
    LET points == all_points(country.polygons)
    IN  /\ \A p \in points :
               /\ country.min_lon <= p[1] /\ p[1] <= country.max_lon
               /\ country.min_lat <= p[2] /\ p[2] <= country.max_lat
        /\ \E p \in points : p[1] = country.min_lon
        /\ \E p \in points : p[1] = country.max_lon
        /\ \E p \in points : p[2] = country.min_lat
        /\ \E p \in points : p[2] = country.max_lat

AllBoxesAreHulls == \A c \in DOMAIN country_objs : BoxIsHull(country_objs[c])

\* C24: every country's box is the hull of all points of all its rings,
\* and no operation changes a country's box or rings; only the selected
\* flag changes.
C24_BoxIsHullAndFrozen ==
    [][/\ AllBoxesAreHulls
       /\ AllBoxesAreHulls'
       /\ DOMAIN country_objs' = DOMAIN country_objs
       /\ \A c \in DOMAIN country_objs :
              country_objs'[c] =
                  [country_objs[c] EXCEPT !.selected = country_objs'[c].selected]
      ]_vars

\* A selection has set the flag of a country whose western, eastern and
\* northern bounds come from three different rings.
C24_Witness ==
    /\ last.op = "select_country"
    /\ \E c \in DOMAIN country_objs :
           LET o == country_objs[c]
               ringOf(coord, v) ==
                   {k \in DOMAIN o.polygons :
                       \E i \in DOMAIN o.polygons[k] :
                           o.polygons[k][i][coord] = v}
           IN  /\ o.selected
               /\ ~last.pre.manager.objs[c].selected
               /\ ringOf(1, o.min_lon) \cap ringOf(1, o.max_lon) = {}
               /\ ringOf(1, o.max_lon) \cap ringOf(2, o.max_lat) = {}
               /\ ringOf(1, o.min_lon) \cap ringOf(2, o.max_lat) = {}


---------------------------------------------------------------------------
(* Properties of the EuropaGame variant, checked on the frames of          *)
(* SpecEuropa.                                                             *)

FramePressed == last.args[1]
FrameMouse == last.args[2]
FrameEvents == last.args[3]

\* The GameState held the handler's offsets and zoom when the frame began
\* (true from the first update on).
InStep(pre) ==
    /\ pre.state.x_offset = pre.input_handler.offset_x
    /\ pre.state.y_offset = pre.input_handler.offset_y
    /\ pre.state.zoom = pre.input_handler.zoom

\* A frame of one mouse-wheel event and no key.
WheelFrame ==
    /\ last.op = "handle_input"
    /\ FramePressed = {}
    /\ Len(FrameEvents) = 1
    /\ FrameEvents[1].type = "MOUSEWHEEL"
    /\ InStep(last.pre)

\* C25 as stated: a mouse-wheel zoom keeps the map point under the cursor
\* fixed: screen_to_geo(cursor) is the same point, in x and in y, before
\* the wheel event and after the update that follows it.
C25_WheelKeepsCursorPoint ==
    WheelFrame =>
        GameState_screen_to_geo(last.pre.state, FrameMouse[1], FrameMouse[2])
            = GameState_screen_to_geo(state, FrameMouse[1], FrameMouse[2])

\* A frame of one motion event and no key, with the left button held.
DragFrame ==
    /\ last.op = "handle_input"
    /\ FramePressed = {}
    /\ Len(FrameEvents) = 1
    /\ FrameEvents[1].type = "MOUSEMOTION"
    /\ last.pre.input_handler.dragging
    /\ last.pre.input_handler.last_mouse_pos # None
    /\ InStep(last.pre)

\* Map points on land and on water.
MapPoints ==
    {<<FromInt(380), FromInt(500)>>, <<FromInt(100), FromInt(100)>>,
     <<FromInt(900), FromInt(700)>>}

\* C26 as stated: when the mouse moves by (dx, dy) during a drag, the
\* screen position transform_coords gives to every map point moves by the
\* same (dx, dy) (to the pixel int() leaves open).
C26_DragMovesMapWithMouse ==
    DragFrame =>
        LET dx == FrameMouse[1] - last.pre.input_handler.last_mouse_pos[1]
            dy == FrameMouse[2] - last.pre.input_handler.last_mouse_pos[2]
            near(a, b) == a - b <= 1 /\ b - a <= 1
        IN  \A p \in MapPoints :
                \A before \in transform_coords(last.pre.state, <<p>>),
                   after \in transform_coords(state, <<p>>) :
                    (before # <<>> /\ after # <<>>) =>
                        /\ near(after[1][1], before[1][1] + dx)
                        /\ near(after[1][2], before[1][2] + dy)

\* Whether a motion event had moved the map since the left button went
\* down, when the i-th event of the frame arrived.
MovedBefore(i) ==
    IF i = 1 THEN last.ret.start.moved ELSE last.ret.trace[i - 1].moved

\* C27 as stated: when a motion event has moved the map while the left
\* button was held, the release that follows does not run the hit test.
C27_NoHitTestAfterDrag ==
    last.op = "handle_input" =>
        \A i \in DOMAIN FrameEvents :
            (/\ FrameEvents[i].type = "MOUSEBUTTONUP"
             /\ FrameEvents[i].button = 1
             /\ MovedBefore(i))
                => ~last.ret.trace[i].hit_test

\* C29: an update with selected_country None leaves the selection as it
\* is, and once a country is selected the selection never becomes None
\* again.
C29_SelectionNeverCleared ==
    [][/\ (last'.op = "handle_input"
           /\ last'.ret.selected_country = NoName)
              => state'.selected_country = state.selected_country
       /\ state.selected_country # NoName
              => state'.selected_country # NoName]_vars

\* A click on water (the hit test ran and found no country) in a frame
\* that began with a country selected.
C29_Witness ==
    /\ last.op = "handle_input"
    /\ last.pre.state.selected_country # NoName
    /\ \E i \in DOMAIN last.ret.trace : last.ret.trace[i].hit_test
    /\ last.ret.selected_country = NoName
    /\ state.selected_country = last.pre.state.selected_country


---------------------------------------------------------------------------
(* The drag of Game.handle_input, checked on SpecDrag.                     *)

\* The event of the step is a press or release of the drag button or a
\* motion.
IsDragEvent(call) ==
    \/ call.op = "MOUSEMOTION"
    \/ call.op \in {"MOUSEBUTTONDOWN", "MOUSEBUTTONUP"}
           /\ call.args[1] = DRAG_BUTTON

\* C28: dragging is True exactly when last_mouse_pos is not None; a motion
\* event pans only while dragging; at the release of the drag button the
\* pans of the drag's motion events add up to the position of the last
\* motion minus the position of the press; and drag events leave the zoom
\* unchanged.
C28_DragTelescopes ==
    [][/\ dragging <=> last_mouse_pos # None
       /\ dragging' <=> last_mouse_pos' # None
       /\ (last'.op = "MOUSEMOTION" /\ ~dragging)
              => offset_x' = offset_x /\ offset_y' = offset_y
       /\ (/\ last'.op = "MOUSEBUTTONUP"
           /\ last'.args[1] = DRAG_BUTTON
           /\ last'.ret.press # None)
              => last'.ret.pan = <<last'.ret.at[1] - last'.ret.press[1],
                                   last'.ret.at[2] - last'.ret.press[2]>>
       /\ IsDragEvent(last') => zoom' = zoom
      ]_vars

\* The drag button is released after a press and two motion events that
\* moved the map, the first to a position other than the last.
C28_Witness ==
    /\ last.op = "MOUSEBUTTONUP"
    /\ last.args[1] = DRAG_BUTTON
    /\ last.ret.press # None
    /\ last.ret.motions = 2
    /\ last.ret.pan # <<0, 0>>
    /\ <<offset_x, offset_y>> =
           <<WINDOW_WIDTH \div 2 + last.ret.pan[1],
             WINDOW_HEIGHT \div 2 + last.ret.pan[2]>>


---------------------------------------------------------------------------
(* The selection across reloads, checked on SpecLoad.                      *)

\* C30 as stated: after any sequence of loads and of selections of None or
\* of a held country, selected_country is None or one of the countries the
\* manager holds, and no other held country has its selected flag set.
C30_SelectionIsHeld ==
    /\ selected_country = NoCountry \/ selected_country \in HeldCountries
    /\ \A c \in HeldCountries :
           country_objs[c].selected <=> c = selected_country

=============================================================================
